---- MODULE Spec2Model ----
(***************************************************************************)
(* The entropy peer (src/src/entropy.rs): the per-peer state machine that  *)
(* implements Put/Get of erasure-coded chunks, together with the parts of  *)
(* its environment its handlers talk to: the overlay net, the codec        *)
(* worker, the bulk service and the fragment filesystem.                   *)
(*                                                                         *)
(* Every handler `impl OnEvent<E> for Peer` is one action.  A handler that *)
(* returns Err or panics ends the peer's session; the peer handles no      *)
(* event after that.                                                       *)
(***************************************************************************)
EXTENDS Integers, Sequences, FiniteSets, TLC

(***************************************************************************)
(* Bounds of the model.                                                    *)
(***************************************************************************)
MaxIndex == 1
MaxBufLen == 2
MaxInput == 3
\* inputs of the runs of FairSpec and of the longer runs of LongSpec
MaxFairInput == 4
MaxLongInput == 5
\* Outgoing and TcpIncoming events a Dispatch handles
MaxEvent == 3
\* calls made on a Timer
MaxCall == 6
\* events the receive loops send
MaxRecv == 3
\* inputs of the runs of UploadSpec
MaxUploadInput == 6
\* net::session::MAX_BUF_LEN
MAX_BUF_LEN == 1048576

\* PeerIds: the overlay's members.  Peers: the members whose session is
\* modelled; the others (and the adversary) are the environment.
PeerIds == {1, 2, 3}
Peers == {1}
Others == PeerIds \ Peers
Chunks == {1}
Bytes == {7}
\* the values rand::random() yields for a persist index, and the indices
\* fragments are offered at: one more, so that chunk_k foreign indices exist
Indices == 0 .. MaxIndex
OfferIndices == 0 .. MaxIndex + 1

(***************************************************************************)
(* Protocol parameters, fixed at construction of the Peer.                 *)
(***************************************************************************)
fragment_len == 1
chunk_k == 2
chunk_n == 2
chunk_m == 3

(***************************************************************************)
(* The buffers a caller may hand to Put: every byte string of length       *)
(* 1 .. MaxBufLen.                                                         *)
(***************************************************************************)
PutBufs == UNION {[1 .. l -> Bytes] : l \in 1 .. MaxBufLen}

(***************************************************************************)
(* Keys and identities.  A PeerId is the digest of a public key.  The      *)
(* adversary owns one key of its own, whose digest is no honest peer's id. *)
(***************************************************************************)
PublicKey(p) == <<"pk", p>>
AdvKey == <<"pk", 0>>
BadSig == <<"sig", "garbage">>
sha256(key) == key[2]
\* a mutation of sign: the message goes out as it was built
sign_unsigned(key, m) == m
\* crypto.sign: a signature names the key whose private half produced it
sign(key, m) == [m EXCEPT !.sig = key]
\* crypto.verify(&peer_key, &message)
verify(key, m) == m.sig = key

\* impl Preimage for H256: the preimage is the chunk id itself
target(preimage) == preimage

\* Multicast(chunk, fanout): the fanout peers closest to chunk
Multicast(chunk, fanout) ==
    IF fanout >= Cardinality(PeerIds) THEN PeerIds
    ELSE CHOOSE S \in SUBSET PeerIds : Cardinality(S) = fanout

(***************************************************************************)
(* HashMap operations.                                                     *)
(***************************************************************************)
EmptyMap == << >>
insert(map, key, value) ==
    [x \in DOMAIN map \cup {key} |-> IF x = key THEN value ELSE map[x]]
remove(map, key) == [x \in DOMAIN map \ {key} |-> map[x]]
\* a mutation of or_insert: the entry is overwritten
or_insert_overwrite(map, key, value) == insert(map, key, value)
\* map.entry(key).or_insert(value)
or_insert(map, key, value) ==
    IF key \in DOMAIN map THEN map ELSE insert(map, key, value)

\* multisets of events in flight
BagAdd(bag, e) == insert(bag, e, IF e \in DOMAIN bag THEN bag[e] + 1 ELSE 1)
BagRemove(bag, e) == IF bag[e] = 1 THEN remove(bag, e) ELSE [bag EXCEPT ![e] = @ - 1]
RECURSIVE BagAddAll(_, _)
BagAddAll(bag, S) ==
    IF S = {} THEN bag
    ELSE LET e == CHOOSE x \in S : TRUE
         IN  BagAddAll(BagAdd(bag, e), S \ {e})
RECURSIVE BagSum(_, _)
BagSum(bag, S) ==
    IF S = {} THEN 0
    ELSE LET e == CHOOSE x \in S : TRUE
         IN  bag[e] + BagSum(bag, S \ {e})

(***************************************************************************)
(* The codec: a fragment of buf at an index is kept symbolic; a decoder is *)
(* the set of (index, fragment) pairs fed to it and is complete once it    *)
(* holds chunk_k distinct indices.                                         *)
(***************************************************************************)
encode(buf, index) == [src |-> buf, idx |-> index]
NewDecoder == {}
decode(decoder, index, fragment) == decoder \cup {<<index, fragment>>}
DecoderIndices(decoder) == {e[1] : e \in decoder}
DecodeComplete(decoder) == Cardinality(DecoderIndices(decoder)) >= chunk_k
Garbage == << >>
decoder_recover(decoder) ==
    LET srcs == {e[2].src : e \in decoder}
    IN  IF Cardinality(srcs) = 1 THEN CHOOSE b \in srcs : TRUE ELSE Garbage

VARIABLES
    uploads,        \* [Peers -> HashMap<Chunk, UploadState>]
    downloads,      \* [Peers -> HashMap<Chunk, DownloadState>]
    persists,       \* [Peers -> HashMap<Chunk, PersistState>]
    pending_pulls,  \* [Peers -> HashMap<Chunk, Vec<PeerId>>]
    session,        \* [Peers -> "running", or the error or panic that ended it]
    net,            \* overlay messages sent by the modelled peers
    codec,          \* bag of codec worker jobs in flight
    offers,         \* bag of bulk offers made by the modelled peers
    transfers,      \* bulk transfers accepted and not yet completed
    fsTasks,        \* [Peers -> bag of spawned Store/Load tasks]
    fsSession,      \* [Peers -> "running" | "error"]
    disk,           \* [Peers -> chunk directory -> index -> bytes]
    fsUpcall,       \* StoreOk / LoadOk on their way to the peer
    nextToken,      \* [Peers -> number of cancellation tokens created]
    cancelled,      \* the cancellation tokens that were triggered
    putOk,          \* [Peers -> [Chunks -> number of PutOk emitted]]
    getOk,          \* the GetOk events emitted
    putAccepted,    \* [Peers -> [Chunks -> number of Puts that submitted an encoder]]
    nInput,         \* number of calls and messages the environment has made
    budget          \* number of them the environment makes in this run

\* history of a peer's session, recorded under FairSpec and LongSpec only
VARIABLES
    delivered,      \* [Peers -> [Chunks -> indices DownloadOk brought to the download]]
    early_pulls     \* [Peers -> <<chunk, peer>> of the Pulls handled before Available]

\* net::session::Dispatch and the channels of its connections
VARIABLES
    connections,    \* HashMap<SocketAddr, Connection>: [sender, using]
    channels,       \* the unbounded channels created, in order of creation
    nConnect,       \* number of protocol.connect calls made
    sent,           \* channels that accepted a buffer since the last sweep
    nEvent          \* number of Outgoing and TcpIncoming events handled

\* timer::Timer and the ScheduleEvent context it sets its timer in
VARIABLES
    timer_id,       \* Timer.id: Option<ActiveTimer>
    scheduled,      \* the ActiveTimer handles the context keeps scheduling
    issued,         \* number of handles context.set has returned
    unsets,         \* [handle -> number of times it was passed to context.unset]
    returned,       \* what the last call on the Timer returned
    nCall,          \* number of calls made on the Timer
    last_calls      \* the last two calls made on the Timer and what they returned

\* a socket's receive loops and the events on_buf sent from them
VARIABLES
    recv_loop,      \* [Loops -> "running", or how the loop ended]
    upcalls         \* the events on_buf sent, in order: [sender, event]

\* the host task replica_session and the sessions it spawned
VARIABLES
    host_sessions,  \* [Sessions -> "running" | "ok" | "error" | "aborted"]
    host_cancel,    \* whether the cancellation token was cancelled
    host_result,    \* "selecting", or what replica_session returned
    first_done,     \* the branch of the select that completed first, if any
    erase_queue,    \* the UntypedEvents the inner sender holds, oldest first
    erase_state,    \* the state S that Untyped owns
    erase_context,  \* the context C passed to Untyped::on_event
    erase_result,   \* what Untyped::on_event returned last
    erase_sent,     \* the typed events whose send returned Ok, oldest first
    nSend           \* number of Erase::send calls made

tables == <<uploads, downloads, persists, pending_pulls>>
peerVars == <<tables, session>>
fsVars == <<fsTasks, fsSession, disk, fsUpcall>>
tokenVars == <<nextToken, cancelled>>
outVars == <<putOk, getOk, putAccepted>>
entropyVars ==
    <<peerVars, net, codec, offers, transfers, fsVars, tokenVars, outVars, nInput,
      budget>>
histVars == <<delivered, early_pulls>>
dispatchVars == <<connections, channels, nConnect, nEvent, sent>>
timerVars ==
    <<timer_id, scheduled, issued, unsets, returned, nCall, last_calls>>
recvVars == <<recv_loop, upcalls>>
hostVars == <<host_sessions, host_cancel, host_result, first_done>>
eraseVars ==
    <<erase_queue, erase_state, erase_context, erase_result, erase_sent, nSend>>
vars ==
    <<entropyVars, histVars, dispatchVars, timerVars, recvVars, hostVars,
      eraseVars>>

(***************************************************************************)
(* State constructors.                                                     *)
(***************************************************************************)
UploadState(preimage, token) ==
    [preimage |-> preimage, encoder |-> {}, pending |-> EmptyMap,
     available |-> {}, cancel |-> token]

\* RecoverState::new
RecoverStateNew(token) ==
    [decoder |-> {NewDecoder}, pending |-> EmptyMap, received |-> {},
     cancel |-> token]

DownloadState(preimage, token) ==
    [preimage |-> preimage, recover |-> RecoverStateNew(token)]

Recovering(rs) == [tag |-> "Recovering", recover |-> rs]
Storing == [tag |-> "Storing"]
Available == [tag |-> "Available"]
PersistState(index, token) ==
    [index |-> index, status |-> Recovering(RecoverStateNew(token)), notify |-> {}]

\* CancellationToken::new() on peer p
NewToken(p) == <<p, nextToken[p]>>

(***************************************************************************)
(* Wire messages, bulk offers and filesystem events.                       *)
(***************************************************************************)
Invite(chunk, peer_id, to) ==
    [type |-> "Invite", chunk |-> chunk, peer_id |-> peer_id, to |-> to]
InviteOk(chunk, index, peer_id, to) ==
    [type |-> "InviteOk", chunk |-> chunk, index |-> index, peer_id |-> peer_id, to |-> to]
FragmentAvailable(chunk, peer_id, peer_key, to) ==
    [type |-> "FragmentAvailable", chunk |-> chunk, peer_id |-> peer_id,
     peer_key |-> peer_key, sig |-> BadSig, to |-> to]
Pull(chunk, peer_id, to) ==
    [type |-> "Pull", chunk |-> chunk, peer_id |-> peer_id, to |-> to]
SendFragment(chunk, index, peer_id) ==
    [chunk |-> chunk, index |-> index, peer_id |-> peer_id]
\* bulk.offer(peer_id, send_fragment, fragment, cancel)
Offer(to, send_fragment, fragment, cancel) ==
    [to |-> to, meta |-> send_fragment, payload |-> fragment, cancel |-> cancel]
Store(chunk, index, fragment) ==
    [type |-> "Store", chunk |-> chunk, index |-> index, payload |-> fragment]
Load(chunk, index, take) ==
    [type |-> "Load", chunk |-> chunk, index |-> index, take |-> take]

(***************************************************************************)
(* The session loop: a handler's result decides whether the session goes   *)
(* on: an Err or a panic ends it, and session keeps what ended it.         *)
(***************************************************************************)
Running(p) == session[p] = "running"
Step(p, result) ==
    session' = [session EXCEPT ![p] = IF result = "ok" THEN @ ELSE result]

\* Dispatch::new
DispatchNew ==
    /\ connections = EmptyMap
    /\ channels = << >>
    /\ nConnect = 0
    /\ nEvent = 0
    /\ sent = {}

\* Timer::new, with a context that has scheduled nothing
TimerNew ==
    /\ timer_id = {}
    /\ scheduled = {}
    /\ issued = 0
    /\ unsets = [h \in 1 .. MaxCall |-> 0]
    /\ returned = "ok"
    /\ nCall = 0
    /\ last_calls = << >>

\* the receive loops were spawned and have read nothing
RecvNew ==
    /\ recv_loop = [l \in {"udp", "tcp"} |-> "running"]
    /\ upcalls = << >>

\* replica_session has spawned its three sessions and waits in the select
HostNew ==
    /\ host_sessions = [s \in {"recv", "crypto", "state"} |-> "running"]
    /\ host_cancel = FALSE
    /\ host_result = "selecting"
    /\ first_done = {}

\* Untyped::new(state) and Erase::new(inner) with nothing sent
EraseNew ==
    /\ erase_queue = << >>
    /\ erase_state = << >>
    /\ erase_context = 0
    /\ erase_result = "none"
    /\ erase_sent = << >>
    /\ nSend = 0

\* the state after Peer::new, before an environment that makes `inputs` inputs
Start(inputs) ==
    /\ uploads = [p \in Peers |-> EmptyMap]
    /\ downloads = [p \in Peers |-> EmptyMap]
    /\ persists = [p \in Peers |-> EmptyMap]
    /\ pending_pulls = [p \in Peers |-> EmptyMap]
    /\ session = [p \in Peers |-> "running"]
    /\ net = {}
    /\ codec = EmptyMap
    /\ offers = EmptyMap
    /\ transfers = {}
    /\ fsTasks = [p \in Peers |-> EmptyMap]
    /\ fsSession = [p \in Peers |-> "running"]
    /\ disk = [p \in Peers |-> EmptyMap]
    /\ fsUpcall = {}
    /\ nextToken = [p \in Peers |-> 0]
    /\ cancelled = {}
    /\ putOk = [p \in Peers |-> [c \in Chunks |-> 0]]
    /\ getOk = {}
    /\ putAccepted = [p \in Peers |-> [c \in Chunks |-> 0]]
    /\ nInput = 0
    /\ budget = inputs
    /\ delivered = [p \in Peers |-> [c \in Chunks |-> {}]]
    /\ early_pulls = [p \in Peers |-> {}]
    /\ DispatchNew
    /\ TimerNew
    /\ RecvNew
    /\ HostNew
    /\ EraseNew

Init == Start(MaxInput)

(***************************************************************************)
(* OnEvent<Put>                                                            *)
(***************************************************************************)
\* a mutation of ChunkLenOk: the length is not checked
ChunkLenOk_unchecked(buf) == TRUE
\* buf.len() == self.fragment_len as usize * self.chunk_k.get()
ChunkLenOk(buf) == Len(buf) = fragment_len * chunk_k

\* a mutation of Replaced: a replaced entry goes unnoticed
Replaced_unnoticed(map, chunk) == FALSE
\* `replaced` of map.insert(chunk, ..): there was an entry for chunk
Replaced(map, chunk) == chunk \in DOMAIN map

Put(p, preimage, buf) ==
    LET chunk == target(preimage)
        lenOk == ChunkLenOk(buf)
        replaced == Replaced(uploads[p], chunk)
        result == IF ~lenOk THEN "error: expect chunk len"
                  ELSE IF replaced THEN "error: duplicated upload chunk"
                  ELSE "ok"
    IN  /\ Running(p)
        /\ Step(p, result)
        /\ IF lenOk
           THEN /\ uploads' = [uploads EXCEPT ![p] =
                        insert(@, chunk, UploadState(preimage, NewToken(p)))]
                /\ nextToken' = [nextToken EXCEPT ![p] = @ + 1]
           ELSE UNCHANGED <<uploads, nextToken>>
        /\ IF result = "ok"
           THEN /\ codec' = BagAdd(codec,
                        [peer |-> p, job |-> "NewEncoder", chunk |-> chunk, buf |-> buf])
                /\ putAccepted' = [putAccepted EXCEPT ![p][chunk] = @ + 1]
           ELSE UNCHANGED <<codec, putAccepted>>
        /\ UNCHANGED <<downloads, persists, pending_pulls, net, offers, transfers,
                       fsVars, cancelled, putOk, getOk>>

(***************************************************************************)
(* OnEvent<NewEncoder>: the encoder-construction job returns.              *)
(***************************************************************************)
NewEncoder(p, j) ==
    LET chunk == j.chunk
        known == chunk \in DOMAIN uploads[p]
        replaced == known /\ uploads[p][chunk].encoder # {}
        result == IF replaced THEN "panic: assert encoder replaced.is_none" ELSE "ok"
    IN  /\ Running(p)
        /\ j \in DOMAIN codec /\ j.peer = p /\ j.job = "NewEncoder"
        /\ codec' = BagRemove(codec, j)
        /\ Step(p, result)
        /\ IF known
           THEN uploads' = [uploads EXCEPT ![p][chunk].encoder = {j.buf}]
           ELSE UNCHANGED uploads
        /\ IF known /\ ~replaced
           THEN net' = net \cup {Invite(chunk, p, to) : to \in Multicast(chunk, chunk_m)}
           ELSE UNCHANGED net
        /\ UNCHANGED <<downloads, persists, pending_pulls, offers, transfers,
                       fsVars, tokenVars, outVars>>

(***************************************************************************)
(* OnEvent<Recv<Invite>>.  index is the value rand::random() returns;      *)
(* inflight is the net without the message being handled.                  *)
(***************************************************************************)
\* a mutation of FromSelf: the peer's own Invite is handled like any other
FromSelf_ignored(p, invite) == FALSE
\* invite.peer_id == self.id
FromSelf(p, invite) == invite.peer_id = p

RecvInvite(p, invite, inflight, index) ==
    LET chunk == invite.chunk
        self == FromSelf(p, invite)
    IN  /\ Running(p)
        /\ Step(p, "ok")
        /\ IF self
           THEN UNCHANGED <<persists, nextToken>> /\ net' = inflight
           ELSE /\ persists' = [persists EXCEPT ![p] =
                        or_insert(@, chunk, PersistState(index, NewToken(p)))]
                \* the token of a state or_insert drops is never seen
                /\ nextToken' = [nextToken EXCEPT ![p] =
                        IF chunk \in DOMAIN persists[p] THEN @ ELSE @ + 1]
                /\ net' = inflight \cup {InviteOk(chunk, index, p, invite.peer_id)}
        /\ UNCHANGED <<uploads, downloads, pending_pulls, codec, offers, transfers,
                       fsVars, cancelled, outVars>>

(***************************************************************************)
(* OnEvent<Recv<InviteOk>>                                                 *)
(***************************************************************************)
\* a mutation of Reserved: a taken index is handed out again
Reserved_never(pending, index) == FALSE
\* state.pending.contains_key(&invite_ok.index)
Reserved(pending, index) == index \in DOMAIN pending

RecvInviteOk(p, invite_ok, inflight) ==
    LET chunk == invite_ok.chunk
        uploading == chunk \in DOMAIN uploads[p]
        reserved == uploading /\ Reserved(uploads[p][chunk].pending, invite_ok.index)
        \* state.encoder.clone().unwrap()
        noEncoder == uploading /\ ~reserved /\ uploads[p][chunk].encoder = {}
        result == IF noEncoder THEN "panic: unwrap encoder" ELSE "ok"
    IN  /\ Running(p)
        /\ Step(p, result)
        /\ net' = inflight
        /\ IF uploading /\ ~reserved
           THEN uploads' = [uploads EXCEPT ![p][chunk].pending =
                    insert(@, invite_ok.index, invite_ok.peer_id)]
           ELSE UNCHANGED uploads
        /\ IF uploading /\ ~reserved /\ ~noEncoder
           THEN codec' = BagAdd(codec,
                    [peer |-> p, job |-> "Encode", chunk |-> chunk,
                     index |-> invite_ok.index,
                     encoder |-> CHOOSE e \in uploads[p][chunk].encoder : TRUE])
           ELSE UNCHANGED codec
        /\ UNCHANGED <<downloads, persists, pending_pulls, offers, transfers,
                       fsVars, tokenVars, outVars>>

(***************************************************************************)
(* OnEvent<Encode>: an encode job returns its fragment.                    *)
(***************************************************************************)
Encode(p, j) ==
    LET chunk == j.chunk
        fragment == encode(j.encoder, j.index)
        offered == /\ chunk \in DOMAIN uploads[p]
                   /\ j.index \in DOMAIN uploads[p][chunk].pending
    IN  /\ Running(p)
        /\ j \in DOMAIN codec /\ j.peer = p /\ j.job = "Encode"
        /\ codec' = BagRemove(codec, j)
        /\ Step(p, "ok")
        /\ IF offered
           THEN offers' = BagAdd(offers,
                    Offer(uploads[p][chunk].pending[j.index],
                          SendFragment(chunk, j.index, {p}), fragment,
                          {uploads[p][chunk].cancel}))
           ELSE UNCHANGED offers
        /\ UNCHANGED <<tables, net, transfers, fsVars, tokenVars, outVars>>

(***************************************************************************)
(* fs.send(event): the filesystem session spawns a task for the event; the *)
(* send fails once that session has returned.                              *)
(***************************************************************************)
FsSendOk(p) == fsSession[p] = "running"
FsSend(p, event) ==
    IF FsSendOk(p)
    THEN fsTasks' = [fsTasks EXCEPT ![p] = BagAdd(@, event)]
    ELSE UNCHANGED fsTasks

(***************************************************************************)
(* RecoverState::submit_decode: hands the decoder to the worker, or queues *)
(* the fragment while the decoder is away.                                 *)
(***************************************************************************)
submit_decode(rs, p, chunk, index, fragment, encode_index) ==
    IF rs.decoder # {}
    THEN [recover |-> [rs EXCEPT !.decoder = {}],
          jobs |-> {[peer |-> p, job |-> "Decode", chunk |-> chunk, index |-> index,
                     payload |-> fragment,
                     decoder |-> CHOOSE d \in rs.decoder : TRUE,
                     encode_index |-> encode_index]}]
    ELSE [recover |-> [rs EXCEPT !.pending = insert(@, index, fragment)],
          jobs |-> {}]

(***************************************************************************)
(* RecoverState::on_decode, after the assertion that the decoder slot was  *)
(* empty; pick is the key `pending.keys().next()` yields.                  *)
(***************************************************************************)
on_decode(rs, p, chunk, decoder, encode_index, pick) ==
    LET back == [rs EXCEPT !.decoder = {decoder}]
    IN  IF DOMAIN rs.pending = {}
        THEN [recover |-> back, jobs |-> {}]
        ELSE submit_decode([back EXCEPT !.pending = remove(@, pick)], p, chunk,
                           pick, rs.pending[pick], encode_index)

\* bulk.accept(recv_offer, len, |buf| DownloadOk(chunk, index, buf), cancel)
Accept(p, o, cancel) ==
    [to |-> p, chunk |-> o.meta.chunk, index |-> o.meta.index,
     payload |-> o.payload, cancel |-> cancel, offer_cancel |-> o.cancel]

(***************************************************************************)
(* OnEvent<RecvOffer<SendFragment>>                                        *)
(***************************************************************************)
\* a mutation of RecvOffer: the receipt is sent whatever the status is
RecvOffer_eager(p, o) ==
    LET sf == o.meta
        chunk == sf.chunk
        downloading == chunk \in DOMAIN downloads[p]
        persisting == ~downloading /\ chunk \in DOMAIN persists[p]
        state == persists[p][chunk]
        recovering == persisting /\ state.status.tag = "Recovering"
        receipt == persisting /\ sf.peer_id # {}
        own == recovering /\ sf.index = state.index
        result ==
            IF receipt /\ sf.index # state.index THEN "panic: assert_eq index"
            ELSE IF own /\ state.notify # {} THEN "panic: assert notify.is_none"
            ELSE IF own /\ sf.peer_id = {} THEN "error: expected peer id in SendFragment"
            ELSE "ok"
    IN  /\ Running(p)
        /\ Step(p, result)
        /\ IF downloading
           THEN transfers' = transfers \cup
                    {Accept(p, o, downloads[p][chunk].recover.cancel)}
           ELSE IF recovering /\ result = "ok"
           THEN transfers' = transfers \cup
                    {Accept(p, o, state.status.recover.cancel)}
           ELSE UNCHANGED transfers
        /\ IF own /\ result = "ok"
           THEN persists' = [persists EXCEPT ![p][chunk].notify = sf.peer_id]
           ELSE UNCHANGED persists
        /\ IF receipt /\ result = "ok"
           THEN net' = net \cup
                    {sign(PublicKey(p),
                          FragmentAvailable(chunk, p, PublicKey(p), to)) : to \in sf.peer_id}
           ELSE UNCHANGED net
        /\ UNCHANGED <<uploads, downloads, pending_pulls, codec, fsVars,
                       tokenVars, outVars>>

RecvOffer(p, o) ==
    LET sf == o.meta
        chunk == sf.chunk
        downloading == chunk \in DOMAIN downloads[p]
        persisting == ~downloading /\ chunk \in DOMAIN persists[p]
        state == persists[p][chunk]
        recovering == persisting /\ state.status.tag = "Recovering"
        receipt == persisting /\ ~recovering /\ sf.peer_id # {}
        own == recovering /\ sf.index = state.index
        result ==
            IF receipt /\ sf.index # state.index THEN "panic: assert_eq index"
            ELSE IF own /\ state.notify # {} THEN "panic: assert notify.is_none"
            ELSE IF own /\ sf.peer_id = {} THEN "error: expected peer id in SendFragment"
            ELSE "ok"
    IN  /\ Running(p)
        /\ Step(p, result)
        /\ IF downloading
           THEN transfers' = transfers \cup
                    {Accept(p, o, downloads[p][chunk].recover.cancel)}
           ELSE IF recovering /\ result = "ok"
           THEN transfers' = transfers \cup
                    {Accept(p, o, state.status.recover.cancel)}
           ELSE UNCHANGED transfers
        /\ IF own /\ result = "ok"
           THEN persists' = [persists EXCEPT ![p][chunk].notify = sf.peer_id]
           ELSE UNCHANGED persists
        /\ IF receipt /\ result = "ok"
           THEN net' = net \cup
                    {sign(PublicKey(p),
                          FragmentAvailable(chunk, p, PublicKey(p), to)) : to \in sf.peer_id}
           ELSE UNCHANGED net
        /\ UNCHANGED <<uploads, downloads, pending_pulls, codec, fsVars,
                       tokenVars, outVars>>

(***************************************************************************)
(* OnEvent<DownloadOk>: an accepted bulk transfer completed.               *)
(***************************************************************************)
DownloadOk(p, t) ==
    LET chunk == t.chunk
        downloading == chunk \in DOMAIN downloads[p]
        persisting == ~downloading /\ chunk \in DOMAIN persists[p]
        state == persists[p][chunk]
        recovering == persisting /\ state.status.tag = "Recovering"
        own == recovering /\ t.index = state.index
        fresh == recovering /\ ~own /\ t.index \notin state.status.recover.received
        result == IF own /\ ~FsSendOk(p) THEN "error: fs channel closed" ELSE "ok"
        sub == IF downloading
               THEN submit_decode(downloads[p][chunk].recover, p, chunk, t.index,
                                  t.payload, {})
               ELSE submit_decode(
                        [state.status.recover EXCEPT !.received = @ \cup {t.index}],
                        p, chunk, t.index, t.payload, {state.index})
    IN  /\ Running(p)
        /\ t \in transfers /\ t.to = p
        /\ transfers' = transfers \ {t}
        /\ Step(p, result)
        /\ IF downloading
           THEN /\ downloads' = [downloads EXCEPT ![p][chunk].recover = sub.recover]
                /\ codec' = BagAddAll(codec, sub.jobs)
                /\ UNCHANGED <<persists, fsTasks>>
           ELSE IF own
           THEN /\ persists' = [persists EXCEPT ![p][chunk].status = Storing]
                /\ FsSend(p, Store(chunk, state.index, t.payload))
                /\ UNCHANGED <<downloads, codec>>
           ELSE IF fresh
           THEN /\ persists' = [persists EXCEPT ![p][chunk].status =
                        Recovering(sub.recover)]
                /\ codec' = BagAddAll(codec, sub.jobs)
                /\ UNCHANGED <<downloads, fsTasks>>
           ELSE UNCHANGED <<downloads, persists, codec, fsTasks>>
        /\ UNCHANGED <<uploads, pending_pulls, net, offers, fsSession, disk, fsUpcall,
                       tokenVars, outVars>>

(***************************************************************************)
(* OnEvent<fs::StoreOk>                                                    *)
(***************************************************************************)
StoreOk(p, u) ==
    LET chunk == u.chunk
        persisting == chunk \in DOMAIN persists[p]
    IN  /\ Running(p)
        /\ u \in fsUpcall /\ u.to = p /\ u.type = "StoreOk"
        /\ fsUpcall' = fsUpcall \ {u}
        /\ Step(p, "ok")
        /\ IF persisting
           THEN /\ persists' = [persists EXCEPT ![p][chunk].status = Available,
                                                ![p][chunk].notify = {}]
                /\ net' = net \cup
                        {sign(PublicKey(p),
                              FragmentAvailable(chunk, p, PublicKey(p), to)) :
                             to \in persists[p][chunk].notify}
           ELSE UNCHANGED <<persists, net>>
        /\ UNCHANGED <<uploads, downloads, pending_pulls, codec, offers, transfers,
                       fsTasks, fsSession, disk, tokenVars, outVars>>

(***************************************************************************)
(* OnEvent<Recv<Verifiable<FragmentAvailable>>>                            *)
(***************************************************************************)
\* a mutation of ConcludeUpload: the entry stays in uploads
ConcludeUpload_keep(map, chunk, available) ==
    [map EXCEPT ![chunk].available = available]
\* self.uploads.remove(&fragment_available.chunk)
ConcludeUpload(map, chunk, available) == remove(map, chunk)

FragmentAvailableRejected(m) ==
    /\ m.peer_id = sha256(m.peer_key)
    /\ ~verify(m.peer_key, m)

RecvFragmentAvailable(p, m, inflight) ==
    LET chunk == m.chunk
        uploading == chunk \in DOMAIN uploads[p]
        counted == uploading /\ ~FragmentAvailableRejected(m)
        available == uploads[p][chunk].available \cup {m.peer_id}
        concluded == counted /\ Cardinality(available) = chunk_n
    IN  /\ Running(p)
        /\ Step(p, "ok")
        /\ net' = inflight
        /\ IF concluded
           THEN /\ uploads' = [uploads EXCEPT ![p] = ConcludeUpload(@, chunk, available)]
                /\ cancelled' = cancelled \cup {uploads[p][chunk].cancel}
                /\ putOk' = [putOk EXCEPT ![p][target(uploads[p][chunk].preimage)] = @ + 1]
           ELSE IF counted
           THEN /\ uploads' = [uploads EXCEPT ![p][chunk].available = available]
                /\ UNCHANGED <<cancelled, putOk>>
           ELSE UNCHANGED <<uploads, cancelled, putOk>>
        /\ UNCHANGED <<downloads, persists, pending_pulls, codec, offers, transfers,
                       fsVars, nextToken, getOk, putAccepted>>

(***************************************************************************)
(* OnEvent<Get>                                                            *)
(***************************************************************************)
Get(p, preimage) ==
    LET chunk == target(preimage)
        replaced == Replaced(downloads[p], chunk)
        result == IF replaced THEN "error: duplicated download chunk" ELSE "ok"
    IN  /\ Running(p)
        /\ Step(p, result)
        /\ downloads' = [downloads EXCEPT ![p] =
                insert(@, chunk, DownloadState(preimage, NewToken(p)))]
        /\ nextToken' = [nextToken EXCEPT ![p] = @ + 1]
        /\ IF replaced
           THEN UNCHANGED net
           ELSE net' = net \cup {Pull(chunk, p, to) : to \in Multicast(chunk, chunk_m)}
        /\ UNCHANGED <<uploads, persists, pending_pulls, codec, offers, transfers,
                       fsVars, cancelled, outVars>>

(***************************************************************************)
(* OnEvent<Recv<Pull>>                                                     *)
(***************************************************************************)
RecvPull(p, pull, inflight) ==
    LET chunk == pull.chunk
        serving == /\ chunk \in DOMAIN persists[p]
                   /\ persists[p][chunk].status.tag = "Available"
        queue == IF chunk \in DOMAIN pending_pulls[p]
                 THEN pending_pulls[p][chunk] ELSE << >>
        result == IF serving /\ ~FsSendOk(p) THEN "error: fs channel closed" ELSE "ok"
    IN  /\ Running(p)
        /\ Step(p, result)
        /\ net' = inflight
        /\ IF serving
           THEN /\ pending_pulls' = [pending_pulls EXCEPT ![p] =
                        insert(@, chunk, Append(queue, pull.peer_id))]
                /\ FsSend(p, Load(chunk, persists[p][chunk].index, TRUE))
           ELSE UNCHANGED <<pending_pulls, fsTasks>>
        /\ UNCHANGED <<uploads, downloads, persists, codec, offers, transfers,
                       fsSession, disk, fsUpcall, tokenVars, outVars>>

(***************************************************************************)
(* OnEvent<fs::LoadOk>                                                     *)
(***************************************************************************)
\* a mutation of OfferAll: the loop over pending is skipped
OfferAll_skip(bag, pending, send_fragment, fragment) == bag
RECURSIVE OfferAll(_, _, _, _)
OfferAll(bag, pending, send_fragment, fragment) ==
    IF pending = << >> THEN bag
    ELSE OfferAll(BagAdd(bag, Offer(Head(pending), send_fragment, fragment, {})),
                  Tail(pending), send_fragment, fragment)

LoadOk(p, u) ==
    LET chunk == u.chunk
        queued == chunk \in DOMAIN pending_pulls[p]
    IN  /\ Running(p)
        /\ u \in fsUpcall /\ u.to = p /\ u.type = "LoadOk"
        /\ fsUpcall' = fsUpcall \ {u}
        /\ Step(p, "ok")
        /\ IF queued
           THEN /\ pending_pulls' = [pending_pulls EXCEPT ![p] = remove(@, chunk)]
                /\ offers' = OfferAll(offers, pending_pulls[p][chunk],
                                      SendFragment(chunk, u.index, {}), u.payload)
           ELSE UNCHANGED <<pending_pulls, offers>>
        /\ UNCHANGED <<uploads, downloads, persists, net, codec, transfers,
                       fsTasks, fsSession, disk, tokenVars, outVars>>

(***************************************************************************)
(* The decode job of submit_decode runs on the worker and emits Decode,    *)
(* Recover or RecoverEncode.                                               *)
(***************************************************************************)
DecodeJob(p, j) == j \in DOMAIN codec /\ j.peer = p /\ j.job = "Decode"
Fed(j) == decode(j.decoder, j.index, j.payload)

(***************************************************************************)
(* OnEvent<Decode>: the decoder comes back incomplete.                     *)
(***************************************************************************)
Decode(p, j, pick) ==
    LET chunk == j.chunk
        downloading == chunk \in DOMAIN downloads[p]
        persisting == ~downloading /\ chunk \in DOMAIN persists[p]
        recovering == persisting /\ persists[p][chunk].status.tag = "Recovering"
        rs == IF downloading THEN downloads[p][chunk].recover
              ELSE persists[p][chunk].status.recover
        result ==
            IF persisting /\ ~recovering THEN "panic: unreachable"
            ELSE IF (downloading \/ recovering) /\ rs.decoder # {}
            THEN "panic: assert decoder replaced.is_none"
            ELSE "ok"
        next == on_decode(rs, p, chunk, Fed(j),
                          IF downloading THEN {} ELSE {persists[p][chunk].index}, pick)
    IN  /\ Running(p)
        /\ DecodeJob(p, j) /\ ~DecodeComplete(Fed(j))
        /\ (downloading \/ recovering) /\ DOMAIN rs.pending # {} => pick \in DOMAIN rs.pending
        /\ ~((downloading \/ recovering) /\ DOMAIN rs.pending # {}) => pick = 0
        /\ Step(p, result)
        /\ IF persisting /\ ~recovering
           THEN codec' = BagRemove(codec, j) /\ UNCHANGED <<downloads, persists>>
           ELSE IF downloading
           THEN /\ downloads' = [downloads EXCEPT ![p][chunk].recover = next.recover]
                /\ codec' = BagAddAll(BagRemove(codec, j), next.jobs)
                /\ UNCHANGED persists
           ELSE IF recovering
           THEN /\ persists' = [persists EXCEPT ![p][chunk].status =
                        Recovering(next.recover)]
                /\ codec' = BagAddAll(BagRemove(codec, j), next.jobs)
                /\ UNCHANGED downloads
           ELSE codec' = BagRemove(codec, j) /\ UNCHANGED <<downloads, persists>>
        /\ UNCHANGED <<uploads, pending_pulls, net, offers, transfers, fsVars,
                       tokenVars, outVars>>

(***************************************************************************)
(* OnEvent<Recover>: the decoder completed on a download.                  *)
(***************************************************************************)
Recover(p, j) ==
    LET chunk == j.chunk
        downloading == chunk \in DOMAIN downloads[p]
    IN  /\ Running(p)
        /\ DecodeJob(p, j) /\ DecodeComplete(Fed(j)) /\ j.encode_index = {}
        /\ codec' = BagRemove(codec, j)
        /\ Step(p, "ok")
        /\ IF downloading
           THEN /\ downloads' = [downloads EXCEPT ![p] = remove(@, chunk)]
                /\ cancelled' = cancelled \cup {downloads[p][chunk].recover.cancel}
                /\ getOk' = getOk \cup
                        {[peer |-> p, preimage |-> downloads[p][chunk].preimage,
                          buf |-> decoder_recover(Fed(j))]}
           ELSE UNCHANGED <<downloads, cancelled, getOk>>
        /\ UNCHANGED <<uploads, persists, pending_pulls, net, offers, transfers,
                       fsVars, nextToken, putOk, putAccepted>>

(***************************************************************************)
(* OnEvent<RecoverEncode>: the decoder completed on a persist entry and    *)
(* was promoted to an encoder for the entry's own index.                   *)
(***************************************************************************)
RecoverEncode(p, j) ==
    LET chunk == j.chunk
        persisting == chunk \in DOMAIN persists[p]
        state == persists[p][chunk]
        recovering == persisting /\ state.status.tag = "Recovering"
        fragment == encode(decoder_recover(Fed(j)), CHOOSE i \in j.encode_index : TRUE)
        result == IF persisting /\ ~recovering THEN "panic: unreachable"
                  ELSE IF recovering /\ ~FsSendOk(p) THEN "error: fs channel closed"
                  ELSE "ok"
    IN  /\ Running(p)
        /\ DecodeJob(p, j) /\ DecodeComplete(Fed(j)) /\ j.encode_index # {}
        /\ codec' = BagRemove(codec, j)
        /\ Step(p, result)
        /\ IF persisting
           THEN persists' = [persists EXCEPT ![p][chunk].status = Storing]
           ELSE UNCHANGED persists
        /\ IF recovering
           THEN /\ cancelled' = cancelled \cup {state.status.recover.cancel}
                /\ FsSend(p, Store(chunk, state.index, fragment))
           ELSE UNCHANGED <<cancelled, fsTasks>>
        /\ UNCHANGED <<uploads, downloads, pending_pulls, net, offers, transfers,
                       fsSession, disk, fsUpcall, nextToken, outVars>>

(***************************************************************************)
(* fs::session.  A spawned Store task creates the chunk directory and      *)
(* writes the fragment file; a Load task reads the file and, with take,    *)
(* removes the chunk directory.  A failing task makes the session return.  *)
(***************************************************************************)
FsStep(p, t, result) ==
    /\ IF result = "ok"
       THEN fsTasks' = [fsTasks EXCEPT ![p] = BagRemove(@, t)] /\ UNCHANGED fsSession
       ELSE /\ fsTasks' = [fsTasks EXCEPT ![p] = EmptyMap]
            /\ fsSession' = [fsSession EXCEPT ![p] = "error"]

FsStore(p, t) ==
    LET exists == t.chunk \in DOMAIN disk[p]
    IN  /\ fsSession[p] = "running"
        /\ t \in DOMAIN fsTasks[p] /\ t.type = "Store"
        /\ FsStep(p, t, IF exists THEN "error" ELSE "ok")
        /\ IF exists
           THEN UNCHANGED <<disk, fsUpcall>>
           ELSE /\ disk' = [disk EXCEPT ![p] =
                        insert(@, t.chunk, insert(EmptyMap, t.index, t.payload))]
                /\ fsUpcall' = fsUpcall \cup
                        {[to |-> p, type |-> "StoreOk", chunk |-> t.chunk]}
        /\ UNCHANGED <<peerVars, net, codec, offers, transfers, tokenVars, outVars>>

FsLoad(p, t) ==
    LET found == /\ t.chunk \in DOMAIN disk[p]
                 /\ t.index \in DOMAIN disk[p][t.chunk]
    IN  /\ fsSession[p] = "running"
        /\ t \in DOMAIN fsTasks[p] /\ t.type = "Load"
        /\ FsStep(p, t, IF found THEN "ok" ELSE "error")
        /\ IF found
           THEN /\ disk' = IF t.take THEN [disk EXCEPT ![p] = remove(@, t.chunk)]
                           ELSE disk
                /\ fsUpcall' = fsUpcall \cup
                        {[to |-> p, type |-> "LoadOk", chunk |-> t.chunk,
                          index |-> t.index, payload |-> disk[p][t.chunk][t.index]]}
           ELSE UNCHANGED <<disk, fsUpcall>>
        /\ UNCHANGED <<peerVars, net, codec, offers, transfers, tokenVars, outVars>>

(***************************************************************************)
(* on_buf: a received buffer is dispatched by its message type.            *)
(***************************************************************************)
on_buf(p, m, inflight) ==
    \/ m.type = "Invite" /\ \E index \in Indices : RecvInvite(p, m, inflight, index)
    \/ m.type = "InviteOk" /\ RecvInviteOk(p, m, inflight)
    \/ m.type = "Pull" /\ RecvPull(p, m, inflight)
    \/ m.type = "FragmentAvailable" /\ RecvFragmentAvailable(p, m, inflight)

(***************************************************************************)
(* The environment of a modelled peer: what the other members of the       *)
(* overlay, honest or not, may send to it.                                 *)
(***************************************************************************)
\* one more call or message from outside the modelled peers
EnvStep == nInput < budget /\ nInput' = nInput + 1 /\ UNCHANGED budget
\* a step of the peer's own machinery takes no input
Internal == UNCHANGED <<nInput, budget>>

GoodBufs == {b \in PutBufs : Len(b) = fragment_len * chunk_k}
EnvInvites(p) == {Invite(c, q, p) : c \in Chunks, q \in Others}
EnvInviteOks(p) == {InviteOk(c, i, q, p) : c \in Chunks, i \in Indices, q \in Others}
EnvPulls(p) == {Pull(c, q, p) : c \in Chunks, q \in Others}
EnvFragmentAvailables(p) ==
    {sign(IF f.valid THEN f.key ELSE BadSig, FragmentAvailable(f.c, f.q, f.key, p)) :
        f \in {g \in [c : Chunks, q : Others, valid : BOOLEAN,
                       key : {PublicKey(q) : q \in Others} \cup {AdvKey}] :
                  g.key \in {PublicKey(g.q), AdvKey}}}
EnvOffers(p) ==
    {Offer(p, SendFragment(c, i, s), encode(b, i), {}) :
        c \in Chunks, i \in OfferIndices, s \in {{}} \cup {{q} : q \in Others},
        b \in GoodBufs}

CallPut(p) ==
    /\ EnvStep
    /\ \E c \in Chunks, buf \in PutBufs : Put(p, c, buf)

CallGetOf(p, c) == EnvStep /\ Get(p, c)
CallGet(p) == \E c \in Chunks : CallGetOf(p, c)

\* a buffer from another overlay member reaches on_buf
EnvRecv(p, m) == EnvStep /\ UNCHANGED offers /\ on_buf(p, m, net)
\* a message a modelled peer addressed to a modelled peer arrives
NetRecv(p, m) ==
    /\ Internal /\ UNCHANGED offers
    /\ m \in net /\ m.to = p
    /\ on_buf(p, m, net \ {m})

NetDeliver(p) == \E m \in net : NetRecv(p, m)

OfferDeliver(p) ==
    /\ Internal
    /\ \E o \in DOMAIN offers :
        /\ o.to = p
        /\ offers' = BagRemove(offers, o)
        /\ RecvOffer(p, o)

EnvInvite(p) == \E m \in EnvInvites(p) : EnvRecv(p, m)
EnvInviteOk(p) == \E m \in EnvInviteOks(p) : EnvRecv(p, m)
EnvPull(p) == \E m \in EnvPulls(p) : EnvRecv(p, m)
EnvFragmentAvailable(p) == \E m \in EnvFragmentAvailables(p) : EnvRecv(p, m)
EnvOffer(p) ==
    EnvStep /\ UNCHANGED offers /\ \E o \in EnvOffers(p) : RecvOffer(p, o)

Worker(p) ==
    /\ Internal
    /\ \E j \in DOMAIN codec :
        \/ NewEncoder(p, j)
        \/ Encode(p, j)
        \/ \E pick \in OfferIndices : Decode(p, j, pick)
        \/ Recover(p, j)
        \/ RecoverEncode(p, j)

BulkOf(p, t) == Internal /\ DownloadOk(p, t)
Bulk(p) == \E t \in transfers : BulkOf(p, t)

Fs(p) ==
    /\ Internal
    /\ \/ \E t \in DOMAIN fsTasks[p] : FsStore(p, t) \/ FsLoad(p, t)
       \/ \E u \in fsUpcall : StoreOk(p, u) \/ LoadOk(p, u)

\* a step of a Peer leaves the other components alone
Elsewhere ==
    UNCHANGED <<dispatchVars, timerVars, recvVars, hostVars, eraseVars>>
NoHist == UNCHANGED histVars /\ Elsewhere

Next ==
    \E p \in Peers :
        \/ CallPut(p) /\ NoHist
        \/ CallGet(p) /\ NoHist
        \/ NetDeliver(p) /\ NoHist
        \/ OfferDeliver(p) /\ NoHist
        \/ EnvInvite(p) /\ NoHist
        \/ EnvInviteOk(p) /\ NoHist
        \/ EnvPull(p) /\ NoHist
        \/ EnvFragmentAvailable(p) /\ NoHist
        \/ EnvOffer(p) /\ NoHist
        \/ Worker(p) /\ NoHist
        \/ Bulk(p) /\ NoHist
        \/ Fs(p) /\ NoHist

Spec == Init /\ [][Next]_vars

(***************************************************************************)
(* The same session with its history: which fragment indices DownloadOk    *)
(* brought to a download, and which Pulls a persister handled before its   *)
(* fragment was Available.                                                 *)
(***************************************************************************)
HistGet(p, c) ==
    /\ delivered' = [delivered EXCEPT ![p][c] = {}]
    /\ UNCHANGED early_pulls
    /\ Elsewhere

HistDownloadOk(p, t) ==
    /\ delivered' = IF t.chunk \in DOMAIN downloads[p]
                    THEN [delivered EXCEPT ![p][t.chunk] = @ \cup {t.index}]
                    ELSE delivered
    /\ UNCHANGED early_pulls
    /\ Elsewhere

HistRecv(p, m) ==
    /\ early_pulls' =
            IF /\ m.type = "Pull"
               /\ m.chunk \in DOMAIN persists[p]
               /\ persists[p][m.chunk].status.tag # "Available"
            THEN [early_pulls EXCEPT ![p] = @ \cup {<<m.chunk, m.peer_id>>}]
            ELSE early_pulls
    /\ UNCHANGED delivered
    /\ Elsewhere

HCallPut(p) == CallPut(p) /\ NoHist
HCallGet(p) == \E c \in Chunks : CallGetOf(p, c) /\ HistGet(p, c)
HNetDeliver(p) == \E m \in net : NetRecv(p, m) /\ HistRecv(p, m)
HOfferDeliver(p) == OfferDeliver(p) /\ NoHist
HEnvRecv(p) ==
    \E m \in EnvInvites(p) \cup EnvInviteOks(p) \cup EnvPulls(p)
                \cup EnvFragmentAvailables(p) :
        EnvRecv(p, m) /\ HistRecv(p, m)
HEnvOffer(p) == EnvOffer(p) /\ NoHist
HWorker(p) == Worker(p) /\ NoHist
HBulk(p) == \E t \in transfers : BulkOf(p, t) /\ HistDownloadOk(p, t)
HFs(p) == Fs(p) /\ NoHist

HistNext ==
    \E p \in Peers :
        \/ HCallPut(p)
        \/ HCallGet(p)
        \/ HNetDeliver(p)
        \/ HOfferDeliver(p)
        \/ HEnvRecv(p)
        \/ HEnvOffer(p)
        \/ HWorker(p)
        \/ HBulk(p)
        \/ HFs(p)

(***************************************************************************)
(* Scheduling: a running session handles every event queued for it, the    *)
(* worker pool runs every submitted job, every accepted bulk transfer      *)
(* completes and the filesystem session runs every spawned task.  Nothing  *)
(* obliges the callers or the other peers to send anything.                *)
(***************************************************************************)
Fairness ==
    \A p \in Peers :
        /\ WF_vars(HNetDeliver(p))
        /\ WF_vars(HOfferDeliver(p))
        /\ WF_vars(HWorker(p))
        /\ WF_vars(HBulk(p))
        /\ WF_vars(HFs(p))

FairInit == Start(MaxFairInput)
FairSpec == FairInit /\ [][HistNext]_vars /\ Fairness

\* the session with its history, with one more input from the environment
LongInit == Start(MaxLongInput)
LongSpec == LongInit /\ [][HistNext]_vars

(***************************************************************************)
(* A peer in the role of PUT initiator only: its callers Put, the other    *)
(* peers answer with InviteOk and FragmentAvailable, and nobody invites it *)
(* or pulls from it.  Every run is a run of the session above.             *)
(***************************************************************************)
UploadNext ==
    \E p \in Peers :
        \/ CallPut(p) /\ NoHist
        \/ NetDeliver(p) /\ NoHist
        \/ EnvInviteOk(p) /\ NoHist
        \/ EnvFragmentAvailable(p) /\ NoHist
        \/ Worker(p) /\ NoHist

UploadInit == Start(MaxUploadInput)
UploadSpec == UploadInit /\ [][UploadNext]_vars

(***************************************************************************)
(* net::session::Dispatch: the connection cache of a stream transport.     *)
(* A connection is the sender half of an unbounded channel; the receiver   *)
(* half is owned by the task protocol.connect spawned, or by the           *)
(* write_task of an accepted stream.  A channel is closed once its         *)
(* receiver is dropped: the connect failed, or the write_task ended.       *)
(***************************************************************************)
Addrs == {"a", "b"}
Bufs == {"x", "y"}
\* Preamble = Option<SocketAddr>
Preambles == {{}} \cup {{remote} : remote \in Addrs}

\* unbounded_channel(): the receiver is alive unless it was dropped already
Channel(open, queue, accepted) ==
    [open |-> open, queue |-> queue, accepted |-> accepted]
Connection(sender, using) == [sender |-> sender, using |-> using]

\* a mutation of UnboundedSender::send: a closed channel accepts
send_accepts_closed(channel) == TRUE
\* UnboundedSender::send(buf) is Ok unless the receiver was dropped
send_accepts(channel) == channel.open
\* UnboundedSender::is_closed
is_closed(channel) == ~channel.open

DispatchEvent == nEvent < MaxEvent /\ nEvent' = nEvent + 1

(***************************************************************************)
(* OnEvent<Outgoing>.  connected tells whether the receiver handed to      *)
(* protocol.connect is still alive when the buffer is sent on the new      *)
(* channel: the spawned task drops it as soon as the connect fails.        *)
(***************************************************************************)
Outgoing(remote, buf, connected) ==
    LET cached == remote \in DOMAIN connections
        accepts == cached /\ send_accepts(channels[connections[remote].sender])
        sender == Len(channels) + 1
    IN  /\ DispatchEvent
        /\ IF accepts
           THEN /\ channels' = [channels EXCEPT
                        ![connections[remote].sender].queue = Append(@, buf)]
                /\ connections' = [connections EXCEPT ![remote].using = TRUE]
                /\ sent' = sent \cup {connections[remote].sender}
                /\ UNCHANGED nConnect
           ELSE /\ nConnect' = nConnect + 1
                /\ IF connected
                   THEN /\ channels' = Append(channels, Channel(TRUE, <<buf>>, FALSE))
                        /\ connections' =
                                insert(connections, remote, Connection(sender, TRUE))
                        /\ sent' = sent \cup {sender}
                   ELSE /\ channels' = Append(channels, Channel(FALSE, << >>, FALSE))
                        /\ connections' = remove(connections, remote)
                        /\ UNCHANGED sent
        /\ UNCHANGED <<entropyVars, histVars,
                 timerVars, recvVars, hostVars, eraseVars>>

\* a mutation of the retain predicate: the sweep reclaims every connection
Retained_never(connection) == FALSE
\* a mutation of the retain predicate: the closed connections are kept
Retained_using(connection) == connection.using
\* replace(&mut connection.using, false) && !connection.sender.is_closed()
Retained(connection) ==
    connection.using /\ ~is_closed(channels[connection.sender])

(***************************************************************************)
(* OnTimer: the sweep of the one second timer set by OnEvent<Init>.        *)
(***************************************************************************)
OnTimer ==
    /\ connections' =
            [remote \in {r \in DOMAIN connections : Retained(connections[r])} |->
                Connection(connections[remote].sender, FALSE)]
    /\ sent' = {}
    /\ UNCHANGED <<channels, nConnect, nEvent, entropyVars, histVars,
                 timerVars, recvVars, hostVars, eraseVars>>

\* a mutation of the preamble test: no accepted connection is cached
HasRemote_never(preamble) == FALSE
\* if let Some(remote) = preamble
HasRemote(preamble) == preamble # {}

(***************************************************************************)
(* OnEvent<TcpIncoming>: a stream was accepted and its preamble parsed.    *)
(***************************************************************************)
TcpIncoming(preamble) ==
    /\ DispatchEvent
    /\ IF HasRemote(preamble)
       THEN /\ channels' = Append(channels, Channel(TRUE, << >>, TRUE))
            /\ connections' =
                    [remote \in DOMAIN connections \cup preamble |->
                        IF remote \in preamble
                        THEN Connection(Len(channels) + 1, FALSE)
                        ELSE connections[remote]]
       ELSE UNCHANGED <<channels, connections>>
    /\ UNCHANGED <<nConnect, sent, entropyVars, histVars,
                 timerVars, recvVars, hostVars, eraseVars>>

\* Tcp::write_task takes the next buffer from its channel and writes it
WriteTask(id) ==
    /\ channels[id].open /\ channels[id].queue # << >>
    /\ channels' = [channels EXCEPT ![id].queue = Tail(@)]
    /\ UNCHANGED <<connections, nConnect, nEvent, sent, entropyVars, histVars,
                 timerVars, recvVars, hostVars, eraseVars>>

\* the receiver is dropped: the connect or a write failed, with the
\* buffers still queued
ReceiverDropped(id) ==
    /\ channels[id].open
    /\ channels' = [channels EXCEPT ![id].open = FALSE]
    /\ UNCHANGED <<connections, nConnect, nEvent, sent, entropyVars, histVars,
                 timerVars, recvVars, hostVars, eraseVars>>

DispatchNext ==
    \/ \E remote \in Addrs, buf \in Bufs, connected \in BOOLEAN :
            Outgoing(remote, buf, connected)
    \/ OnTimer
    \/ \E preamble \in Preambles : TcpIncoming(preamble)
    \/ \E id \in DOMAIN channels : WriteTask(id)
    \/ \E id \in DOMAIN channels : ReceiverDropped(id)

\* a Dispatch alone: the peers take no input
DispatchSpec == Start(0) /\ [][DispatchNext]_vars

(***************************************************************************)
(* timer::Timer<M>: a wrapper that owns the handle of at most one timer.   *)
(* The context is a ScheduleEvent: set returns a fresh ActiveTimer or an   *)
(* error, unset takes a handle back and stops scheduling it.               *)
(***************************************************************************)
TimerCall == nCall < MaxCall /\ nCall' = nCall + 1
\* the caller makes the named call
Called(name) ==
    last_calls' = Append(IF Len(last_calls) = 2 THEN Tail(last_calls)
                         ELSE last_calls,
                         [call |-> name, returned |-> returned'])

\* the replaced handle is dropped when `replaced` goes out of scope
drop(handles) ==
    /\ scheduled' = scheduled \cup {issued + 1}
    /\ UNCHANGED unsets

\* Timer::set; granted tells whether context.set returns a handle
set(granted) ==
    IF granted
    THEN /\ issued' = issued + 1
         /\ timer_id' = {issued + 1}
         /\ drop(timer_id)
         /\ returned' = IF timer_id = {} THEN "ok" ELSE "error: ensure replaced.is_none"
    ELSE /\ returned' = "error: context.set"
         /\ UNCHANGED <<timer_id, scheduled, issued, unsets>>

\* Timer::unset; accepted tells whether context.unset returns Ok
unset(accepted) ==
    IF timer_id = {}
    THEN /\ returned' = "error: missing timer timer_id"
         /\ UNCHANGED <<timer_id, scheduled, issued, unsets>>
    ELSE /\ timer_id' = {}
         /\ scheduled' = scheduled \ timer_id
         /\ unsets' = [h \in DOMAIN unsets |-> IF h \in timer_id THEN unsets[h] + 1
                                               ELSE unsets[h]]
         /\ returned' = IF accepted THEN "ok" ELSE "error: context.unset"
         /\ UNCHANGED issued

\* a mutation of ensure_set: the timer is set whether or not it is set
ensure_set_always(granted) == set(granted)
\* Timer::ensure_set
ensure_set(granted) ==
    IF timer_id = {}
    THEN set(granted)
    ELSE returned' = "ok" /\ UNCHANGED <<timer_id, scheduled, issued, unsets>>

\* Timer::ensure_unset
ensure_unset(accepted) ==
    IF timer_id # {}
    THEN unset(accepted)
    ELSE returned' = "ok" /\ UNCHANGED <<timer_id, scheduled, issued, unsets>>

TimerFrame ==
    UNCHANGED <<entropyVars, histVars, dispatchVars, recvVars, hostVars,
                eraseVars>>

TimerNext ==
    \/ \E granted \in BOOLEAN :
            TimerCall /\ set(granted) /\ Called("set") /\ TimerFrame
    \/ \E accepted \in BOOLEAN :
            TimerCall /\ unset(accepted) /\ Called("unset") /\ TimerFrame
    \/ \E granted \in BOOLEAN :
            TimerCall /\ ensure_set(granted) /\ Called("ensure_set") /\ TimerFrame
    \/ \E accepted \in BOOLEAN :
            TimerCall /\ ensure_unset(accepted) /\ Called("ensure_unset") /\ TimerFrame

\* a Timer and its context alone
TimerSpec == Start(0) /\ [][TimerNext]_vars

(***************************************************************************)
(* The receive loops of a socket: Udp::recv_session reads datagrams and    *)
(* Tcp::read_task reads length-prefixed frames; both hand every buffer to  *)
(* on_buf and propagate its error with `?`.                                *)
(*                                                                         *)
(* A buffer is the serialized Message: the index of the enum variant (the  *)
(* payload is left out).  A buffer that is empty, or whose first byte is   *)
(* no variant's index, does not deserialize.                               *)
(***************************************************************************)
Variants ==
    <<"Invite", "InviteOk", "Pull", "FragmentAvailable", "FindPeer", "FindPeerOk",
      "BlobServe">>
serialize(variant) == <<CHOOSE i \in DOMAIN Variants : Variants[i] = variant>>
\* net::deserialize: Ok(message) as {message}, Err as {}
deserialize(buf) ==
    IF Len(buf) = 1 /\ buf[1] \in DOMAIN Variants THEN {Variants[buf[1]]} ELSE {}

\* the buffers a socket may deliver
RecvBufs ==
    {<< >>, <<Len(Variants) + 1>>} \cup
    {serialize(Variants[i]) : i \in DOMAIN Variants}

\* the arms of the match in on_buf
SenderOf(message) ==
    IF message \in {"FindPeer", "FindPeerOk"} THEN "kademlia"
    ELSE IF message = "BlobServe" THEN "blob"
    ELSE "entropy"

\* entropy::on_buf: the events it sends, and whether it returns Ok
OnBuf(buf) ==
    [ok |-> deserialize(buf) # {},
     sent |-> IF deserialize(buf) = {} THEN << >>
              ELSE LET message == CHOOSE m \in deserialize(buf) : TRUE
                   IN  <<[sender |-> SenderOf(message), event |-> message]>>]

RecvStep == Len(upcalls) < MaxRecv
RecvFrame ==
    UNCHANGED <<entropyVars, histVars, dispatchVars, timerVars, hostVars,
                eraseVars>>

\* one turn of the loop of Udp::recv_session; received tells whether
\* recv_from returns a datagram
UdpRecv(received, buf) ==
    /\ RecvStep
    /\ recv_loop["udp"] = "running"
    /\ IF ~received
       THEN recv_loop' = [recv_loop EXCEPT !["udp"] = "error: recv_from"]
              /\ UNCHANGED upcalls
       ELSE /\ upcalls' = upcalls \o OnBuf(buf).sent
            /\ recv_loop' = [recv_loop EXCEPT !["udp"] =
                    IF OnBuf(buf).ok THEN @ ELSE "error: on_buf"]

\* one turn of the loop of Tcp::read_task; read is what read_u64 returns
\* and len the length it carries
TcpRead(read, len, buf) ==
    /\ RecvStep
    /\ recv_loop["tcp"] = "running"
    /\ IF read = "eof"
       THEN recv_loop' = [recv_loop EXCEPT !["tcp"] = "break"] /\ UNCHANGED upcalls
       ELSE IF read = "error"
       THEN recv_loop' = [recv_loop EXCEPT !["tcp"] = "error: read"]
              /\ UNCHANGED upcalls
       ELSE IF len > MAX_BUF_LEN
       THEN recv_loop' = [recv_loop EXCEPT !["tcp"] = "error: invalid buffer length"]
              /\ UNCHANGED upcalls
       ELSE /\ len = Len(buf)
            /\ upcalls' = upcalls \o OnBuf(buf).sent
            /\ recv_loop' = [recv_loop EXCEPT !["tcp"] =
                    IF OnBuf(buf).ok THEN @ ELSE "error: on_buf"]

RecvNext ==
    \/ \E received \in BOOLEAN, buf \in RecvBufs :
            UdpRecv(received, buf) /\ RecvFrame
    \/ \E read \in {"eof", "error", "len"}, len \in {0, 1, MAX_BUF_LEN + 1},
          buf \in RecvBufs :
            TcpRead(read, len, buf) /\ RecvFrame

\* the receive loops alone
RecvSpec == Start(0) /\ [][RecvNext]_vars

(***************************************************************************)
(* replica_session: the host task spawns the recv, crypto and state        *)
(* sessions and selects over their join handles and the cancellation       *)
(* token.  The sessions and whoever cancels the token run concurrently     *)
(* with the host task: a branch completes in one step, the select finds    *)
(* it complete in a later one, and picks any of the branches that are      *)
(* complete by then.                                                       *)
(***************************************************************************)
Sessions == {"recv", "crypto", "state"}
Branches == Sessions \cup {"cancel"}

\* the branches whose future is ready when the select polls
Complete ==
    {s \in Sessions : host_sessions[s] \in {"ok", "error"}} \cup
    {b \in {"cancel"} : host_cancel}

Completes(branch) ==
    first_done' = IF first_done = {} THEN {branch} ELSE first_done

\* a spawned session returns, with an error or naturally
SessionReturns(s, result) ==
    /\ host_sessions[s] = "running"
    /\ host_sessions' = [host_sessions EXCEPT ![s] = result]
    /\ Completes(s)
    /\ UNCHANGED <<host_cancel, host_result>>

\* cancel.cancel(), by the owner of the token
Cancel ==
    /\ ~host_cancel
    /\ host_cancel' = TRUE
    /\ Completes("cancel")
    /\ UNCHANGED <<host_sessions, host_result>>

\* a mutation of Returned: a session that returns Ok ends the host with Ok
Returned_ok(result) == result
\* `result??` and the `return Err(..)` after the select
Returned(result) == "error"

\* JoinHandle::abort on every session; a finished task is not affected
AbortAll ==
    [s \in Sessions |-> IF host_sessions[s] = "running" THEN "aborted"
                         ELSE host_sessions[s]]

\* tokio::select! takes a branch that is complete
Select(branch) ==
    /\ host_result = "selecting"
    /\ branch \in Complete
    /\ IF branch = "cancel"
       THEN /\ host_sessions' = AbortAll
            /\ host_result' = "ok"
       ELSE /\ host_result' = Returned(host_sessions[branch])
            /\ UNCHANGED host_sessions
    /\ UNCHANGED <<host_cancel, first_done>>

HostFrame ==
    UNCHANGED <<entropyVars, histVars, dispatchVars, timerVars, recvVars,
                eraseVars>>

HostNext ==
    \/ \E s \in Sessions, result \in {"ok", "error"} :
            SessionReturns(s, result) /\ HostFrame
    \/ Cancel /\ HostFrame
    \/ \E branch \in Branches : Select(branch) /\ HostFrame

\* a host task alone
HostSpec == Start(0) /\ [][HostNext]_vars

(***************************************************************************)
(* event::Erase and event::Untyped.  A state S implements                  *)
(* OnErasedEvent<M> for the event types "A" and "B"; Erase<S, C, E> turns  *)
(* a typed event into an UntypedEvent, a boxed closure over the event, and *)
(* hands it to the inner sender E; Untyped<C, S> owns the state and calls  *)
(* the closure of each UntypedEvent it is given.  The state keeps the      *)
(* events its handlers were called with, the context counts the calls.     *)
(***************************************************************************)
MaxSend == 4
Types == {"A", "B"}
Events == {1, 2}

\* S::on_event of OnErasedEvent<M, C>: the state and context after the
\* call, and what it returns
OnErasedEvent(type, state, event, context) ==
    [state |-> Append(state, <<type, event>>),
     context |-> context + 1,
     result |-> IF type = "B" /\ event = 2 THEN "error" ELSE "ok"]

\* a mutation of the closure: it calls the handler with a default event
UntypedEvent_default(type, event) == [type |-> type, event |-> 1]
\* UntypedEvent(Box::new(move |state, context| state.on_event(event, context)))
UntypedEvent(type, event) == [type |-> type, event |-> event]

\* event(&mut self.0, context), the call of the boxed closure
Call(closure, state, context) ==
    OnErasedEvent(closure.type, state, closure.event, context)

EraseFrame ==
    UNCHANGED <<entropyVars, histVars, dispatchVars, timerVars, recvVars,
                hostVars>>

\* SendEvent<M> for Erase: self.0.send(UntypedEvent(..)); accepted tells
\* whether the inner sender returns Ok
EraseSend(type, event, accepted) ==
    /\ nSend < MaxSend
    /\ nSend' = nSend + 1
    /\ IF accepted
       THEN /\ erase_queue' = Append(erase_queue, UntypedEvent(type, event))
            /\ erase_sent' = Append(erase_sent, <<type, event>>)
       ELSE UNCHANGED <<erase_queue, erase_sent>>
    /\ UNCHANGED <<erase_state, erase_context, erase_result>>

\* OnEvent<C> for Untyped, on the event the inner queue delivers next
UntypedOnEvent ==
    /\ erase_queue # << >>
    /\ LET called == Call(Head(erase_queue), erase_state, erase_context)
       IN  /\ erase_state' = called.state
           /\ erase_context' = called.context
           /\ erase_result' = called.result
    /\ erase_queue' = Tail(erase_queue)
    /\ UNCHANGED <<erase_sent, nSend>>

EraseNext ==
    \/ \E type \in Types, event \in Events, accepted \in BOOLEAN :
            EraseSend(type, event, accepted) /\ EraseFrame
    \/ UntypedOnEvent /\ EraseFrame

\* an Erase sender and the Untyped state it feeds, alone
EraseSpec == Start(0) /\ [][EraseNext]_vars

(***************************************************************************)
(* Properties of the upload, persist and download tables.                  *)
(***************************************************************************)
TablesOf(p, c) ==
    {t \in {"uploads", "downloads", "persists"} :
        \/ t = "uploads" /\ c \in DOMAIN uploads[p]
        \/ t = "downloads" /\ c \in DOMAIN downloads[p]
        \/ t = "persists" /\ c \in DOMAIN persists[p]}

\* C1: on every peer, for every chunk, at most one of uploads[c],
\* downloads[c] and persists[c] is defined.
TablesDisjoint ==
    \A p \in Peers : \A c \in Chunks : Cardinality(TablesOf(p, c)) <= 1

\* the InviteOk messages peer p has sent for chunk c
SentInviteOk(p, c) ==
    {m \in net : m.type = "InviteOk" /\ m.peer_id = p /\ m.chunk = c}

\* C2: every InviteOk a peer sends for chunk c carries the same index, the
\* index of the peer's persists[c].
InviteOkCarriesPersistIndex ==
    \A p \in Peers : \A c \in Chunks : \A m \in SentInviteOk(p, c) :
        /\ c \in DOMAIN persists[p]
        /\ m.index = persists[p][c].index

\* C3: once persists[c] exists it is never removed or re-created by a
\* later Invite: its index is final.
PersistIndexFinal ==
    [][\A p \in Peers : \A c \in DOMAIN persists[p] :
          /\ c \in DOMAIN persists'[p]
          /\ persists'[p][c].index = persists[p][c].index]_vars

\* a later Invite drew another index and the persist entry kept its own
PersistIndexFinalWitness ==
    \E p \in Peers : \E c \in DOMAIN persists[p] : \E m \in SentInviteOk(p, c) :
        m.index # persists[p][c].index

PutOkBounded(p, c) ==
    /\ putOk[p][c] <= putAccepted[p][c]
    /\ c \in DOMAIN uploads[p] =>
            Cardinality(uploads[p][c].available) < chunk_n

\* C4: PutOk is emitted at most once per accepted Put, in the step in which
\* |available| first equals n and uploads[c] is removed; |available| never
\* exceeds n.
PutOkOnce ==
    [][\A p \in Peers : \A c \in Chunks :
          /\ PutOkBounded(p, c)
          /\ PutOkBounded(p, c)'
          /\ putOk'[p][c] # putOk[p][c] <=>
                (c \in DOMAIN uploads[p] /\ c \notin DOMAIN uploads'[p])
          /\ putOk'[p][c] # putOk[p][c] =>
                /\ putOk'[p][c] = putOk[p][c] + 1
                /\ Cardinality(uploads[p][c].available) = chunk_n - 1]_vars

PutOkOnceWitness ==
    \E p \in Peers : \E c \in Chunks :
        putOk[p][c] = 1 /\ c \notin DOMAIN uploads[p]

\* the FragmentAvailable messages that may reach peer p in this state
FragmentAvailables(p) ==
    EnvFragmentAvailables(p) \cup
        {m \in net : m.type = "FragmentAvailable" /\ m.to = p}

\* the step is peer p handling FragmentAvailable m
HandlesFragmentAvailable(p, m) ==
    RecvFragmentAvailable(p, m, net) \/ RecvFragmentAvailable(p, m, net \ {m})

\* the step counts a sender for an upload: `available` grows or concludes
CountsSender(p) == uploads'[p] # uploads[p]

FragmentAvailableValid(m) ==
    m.peer_id = sha256(m.peer_key) /\ verify(m.peer_key, m)

\* C5: the ids counted in `available`, up to the n at PutOk, are senders of
\* a valid FragmentAvailable: the handler counts a sender only for a message
\* whose peer_id is the digest of its key and whose signature verifies.
AvailableOnlyValidSenders ==
    [][\A p \in Peers : \A m \in FragmentAvailables(p) :
          HandlesFragmentAvailable(p, m) /\ CountsSender(p) =>
              FragmentAvailableValid(m)]_vars

\* C6: a FragmentAvailable whose peer_id is not the digest of its peer_key
\* is dropped, whatever its signature.
DigestMismatchDropped ==
    [][\A p \in Peers : \A m \in FragmentAvailables(p) :
          m.peer_id # sha256(m.peer_key) /\ HandlesFragmentAvailable(p, m) =>
              UNCHANGED <<uploads, putOk, cancelled>>]_vars

\* C7: a FragmentAvailable whose signature does not verify under its
\* peer_key is dropped, for every peer_id.
BadSignatureDropped ==
    [][\A p \in Peers : \A m \in FragmentAvailables(p) :
          ~verify(m.peer_key, m) /\ HandlesFragmentAvailable(p, m) =>
              UNCHANGED <<uploads, putOk, cancelled>>]_vars

\* C8: while a persist entry's status is Available, the fragment file of
\* its index exists in the chunk directory.
AvailableHasFile ==
    \A p \in Peers : \A c \in DOMAIN persists[p] :
        persists[p][c].status = Available =>
            /\ c \in DOMAIN disk[p]
            /\ persists[p][c].index \in DOMAIN disk[p][c]

\* C9: a Put whose buffer is not fragment_len * k bytes long returns an
\* error and has no other effect.
PutWrongLenNoEffect ==
    [][\A p \in Peers : \A c \in Chunks : \A buf \in PutBufs :
          Len(buf) # fragment_len * chunk_k /\ Put(p, c, buf) =>
              /\ session'[p] = "error: expect chunk len"
              /\ UNCHANGED <<tables, net, codec, offers, transfers, fsVars,
                             tokenVars, outVars>>]_vars

PutWrongLenWitness ==
    \E p \in Peers :
        /\ session[p] = "error: expect chunk len"
        /\ uploads[p] = EmptyMap

\* C10: a Put for a chunk still in uploads, and a Get for a chunk still in
\* downloads, returns an error; no second encoder job and no second Pull
\* multicast is issued.
DuplicateRejected ==
    [][\A p \in Peers : \A c \in Chunks :
          /\ \A buf \in GoodBufs :
                c \in DOMAIN uploads[p] /\ Put(p, c, buf) =>
                    /\ session'[p] = "error: duplicated upload chunk"
                    /\ codec' = codec /\ net' = net
          /\ c \in DOMAIN downloads[p] /\ Get(p, c) =>
                /\ session'[p] = "error: duplicated download chunk"
                /\ codec' = codec /\ net' = net]_vars

DuplicateRejectedWitness ==
    \E p \in Peers : \E c \in DOMAIN uploads[p] :
        /\ session[p] = "error: duplicated upload chunk"
        /\ putAccepted[p][c] = 1

\* everything of a peer's session but the network
sessionVars ==
    <<tables, session, codec, offers, transfers, fsVars, tokenVars, outVars>>

\* C11: handling an Invite whose sender is the receiving peer itself sends
\* no InviteOk and leaves persists and every other table unchanged.
OwnInviteIgnored ==
    [][\A p \in Peers : \A m \in net : \A index \in Indices :
          /\ m.type = "Invite" /\ m.to = p /\ m.peer_id = p
          /\ RecvInvite(p, m, net \ {m}, index)
          => /\ net' = net \ {m}
             /\ UNCHANGED sessionVars]_vars

\* the peer's own Invite has been delivered to it: the multicast is still
\* in the network for the others, the peer's copy is not
OwnInviteIgnoredWitness ==
    \E p \in Peers : \E c \in DOMAIN uploads[p] :
        /\ \E m \in net : m.type = "Invite" /\ m.chunk = c /\ m.peer_id = p
        /\ ~ \E m \in net : m.type = "Invite" /\ m.chunk = c /\ m.to = p
        /\ persists[p] = EmptyMap
        /\ Running(p)

\* the InviteOk messages that may reach peer p in this state
InviteOks(p) ==
    EnvInviteOks(p) \cup {m \in net : m.type = "InviteOk" /\ m.to = p}

HandlesInviteOk(p, m) ==
    RecvInviteOk(p, m, net) \/ RecvInviteOk(p, m, net \ {m})

\* C12: an InviteOk for an index already a key of uploads[c].pending changes
\* nothing (pending keeps the peer first recorded, no encode job), and so
\* does an InviteOk for a chunk in neither uploads nor persists.
InviteOkNoEffect ==
    [][\A p \in Peers : \A m \in InviteOks(p) :
          /\ \/ /\ m.chunk \in DOMAIN uploads[p]
                /\ m.index \in DOMAIN uploads[p][m.chunk].pending
             \/ /\ m.chunk \notin DOMAIN uploads[p]
                /\ m.chunk \notin DOMAIN persists[p]
          /\ HandlesInviteOk(p, m)
          => UNCHANGED sessionVars]_vars

\* an index is reserved for one peer, its encode job is the only one that
\* was submitted, and a further message was handled without effect
InviteOkNoEffectWitness ==
    \E p \in Peers : \E c \in DOMAIN uploads[p] :
        /\ Running(p)
        /\ Cardinality(DOMAIN uploads[p][c].pending) = 1
        /\ Cardinality({j \in DOMAIN codec : j.job = "Encode"}) = 1
        /\ \A j \in DOMAIN codec : codec[j] = 1
        /\ uploads[p][c].available = {}
        /\ persists[p] = EmptyMap /\ downloads[p] = EmptyMap
        /\ nInput = 3

\* the Pulls of chunk c that persister p queued for its running Load
QueuedPullers(p, c) ==
    IF c \in DOMAIN pending_pulls[p]
    THEN {pending_pulls[p][c][n] : n \in DOMAIN pending_pulls[p][c]}
    ELSE {}

\* persister p has offered its fragment of chunk c to peer q
FragmentOffered(p, c, q) ==
    \E o \in DOMAIN offers :
        /\ o.to = q /\ o.meta.chunk = c /\ o.meta.peer_id = {}
        /\ o.meta.index = persists[p][c].index

\* C13: a Get of a chunk whose Put has concluded ends in GetOk when k
\* persisters are Available.  With chunk_k = chunk_n every persister's
\* fragment is needed, so each Available persister that handled the Pull of
\* a peer q must eventually offer its fragment to q, unless its session
\* ends (the persister is then no longer reachable).
AvailablePullAnswered ==
    \A p \in Peers, c \in Chunks, q \in Others :
        (/\ c \in DOMAIN persists[p]
         /\ persists[p][c].status.tag = "Available"
         /\ q \in QueuedPullers(p, c))
            ~> \/ c \in DOMAIN persists[p] /\ FragmentOffered(p, c, q)
               \/ ~Running(p)

\* C14: once DownloadOk has brought k distinct indices to the download of
\* c, the download ends with GetOk and no delivered fragment is lost.  The
\* download is then never stopped by the assertion of its own on_decode,
\* which ends the session with downloads[c] still defined.
DownloadDecodesToTheEnd ==
    \A p \in Peers, c \in Chunks :
        (c \in DOMAIN downloads[p] /\ Cardinality(delivered[p][c]) >= chunk_k)
            => session[p] # "panic: assert decoder replaced.is_none"

\* C15: a Pull that reached a persister before its fragment was Available
\* is answered once the fragment is Available: the persister then offers the
\* fragment to the pulling peer (every persister's fragment is needed when
\* chunk_k = chunk_n), unless its session ends.
EarlyPullAnswered ==
    \A p \in Peers, c \in Chunks, q \in Others :
        (/\ <<c, q>> \in early_pulls[p]
         /\ c \in DOMAIN persists[p]
         /\ persists[p][c].status.tag = "Available")
            ~> \/ c \in DOMAIN persists[p] /\ FragmentOffered(p, c, q)
               \/ ~Running(p)

\* offer o is delivered to p a second time: p is recovering the chunk, the
\* transfer p accepted from the first delivery is still running, and for
\* p's own index the first delivery recorded the offer's sender in notify
Redelivered(p, o) ==
    LET chunk == o.meta.chunk
    IN  /\ chunk \notin DOMAIN downloads[p]
        /\ chunk \in DOMAIN persists[p]
        /\ persists[p][chunk].status.tag = "Recovering"
        /\ Accept(p, o, persists[p][chunk].status.recover.cancel) \in transfers
        /\ o.meta.index = persists[p][chunk].index
                => persists[p][chunk].notify = o.meta.peer_id

\* C16: a message delivered a second time never makes a handler fail an
\* assertion or return an error; here for a SendFragment offer delivered
\* again to a running persister: its session is still running afterwards.
RedeliveryHarmless ==
    [][\A p \in Peers : \A o \in EnvOffers(p) :
            Running(p) /\ Redelivered(p, o) /\ RecvOffer(p, o)
                => session'[p] = "running"]_vars

(***************************************************************************)
(* Properties of the connection cache of Dispatch.                         *)
(***************************************************************************)
OutgoingHandled(remote, buf) ==
    \E connected \in BOOLEAN : Outgoing(remote, buf, connected)

\* the step queued buf on channel id and touched no other channel
QueuedOnlyOn(id, buf) ==
    /\ DOMAIN channels' = DOMAIN channels \cup {id}
    /\ channels'[id].queue =
            Append(IF id \in DOMAIN channels THEN channels[id].queue ELSE << >>, buf)
    /\ \A i \in DOMAIN channels \ {id} : channels'[i] = channels[i]

\* the cache holds a connection to remote whose writer is still there
CachedOpen(remote) ==
    /\ remote \in DOMAIN connections
    /\ channels[connections[remote].sender].open

\* the step made one connect call, for the channel after the existing ones
ConnectedOnce ==
    /\ nConnect' = nConnect + 1
    /\ DOMAIN channels' = 1 .. Len(channels) + 1
    /\ ~channels'[Len(channels) + 1].accepted

\* C17 as stated: after Outgoing(dest, buf) is handled, buf is queued on
\* exactly one connection, the cached one when its writer accepts it (no
\* connect call) and a newly connected one otherwise (one connect call),
\* and the cache entry of dest is that connection with using = true.
OutgoingAlwaysQueued ==
    [][\A remote \in Addrs, buf \in Bufs :
            OutgoingHandled(remote, buf) =>
                /\ remote \in DOMAIN connections'
                /\ connections'[remote].using
                /\ QueuedOnlyOn(connections'[remote].sender, buf)
                /\ IF CachedOpen(remote)
                   THEN /\ connections'[remote].sender = connections[remote].sender
                        /\ nConnect' = nConnect
                   ELSE /\ connections'[remote].sender = Len(channels) + 1
                        /\ ConnectedOnce]_vars

\* C17, amended: the same, unless the channel of the newly connected
\* connection is closed already when the buffer is sent on it; then one
\* connect call was made, the buffer is queued nowhere and the cache holds
\* no entry for dest.
OutgoingQueuedUnlessRefused ==
    [][\A remote \in Addrs, buf \in Bufs :
            OutgoingHandled(remote, buf) =>
                IF CachedOpen(remote)
                THEN /\ remote \in DOMAIN connections'
                     /\ connections'[remote] =
                            Connection(connections[remote].sender, TRUE)
                     /\ QueuedOnlyOn(connections[remote].sender, buf)
                     /\ nConnect' = nConnect
                ELSE /\ ConnectedOnce
                     /\ IF channels'[Len(channels) + 1].open
                        THEN /\ remote \in DOMAIN connections'
                             /\ connections'[remote] =
                                    Connection(Len(channels) + 1, TRUE)
                             /\ QueuedOnlyOn(Len(channels) + 1, buf)
                        ELSE /\ remote \notin DOMAIN connections'
                             /\ channels'[Len(channels) + 1].queue = << >>
                             /\ \A i \in DOMAIN channels : channels'[i] = channels[i]]_vars

\* a stale entry was replaced: the first connection took a buffer and its
\* writer closed, the second Outgoing connected again and queued its buffer
StaleReplacedWitness ==
    \E remote \in Addrs :
        /\ nEvent = 2 /\ nConnect = 2 /\ Len(channels) = 2
        /\ DOMAIN connections = {remote}
        /\ connections[remote] = Connection(2, TRUE)
        /\ ~channels[1].open /\ channels[1].queue = <<"x">>
        /\ channels[2] = Channel(TRUE, <<"y">>, FALSE)

\* C18: on each timer sweep a cached connection is removed exactly when its
\* using bit was false or its writer channel is closed; the survivors keep
\* their channel and have using = false; no connection is added.
SweepRemovesIdleOrClosed ==
    [][OnTimer =>
            /\ DOMAIN connections' \subseteq DOMAIN connections
            /\ \A remote \in DOMAIN connections :
                    remote \notin DOMAIN connections'
                        <=> \/ ~connections[remote].using
                            \/ ~channels[connections[remote].sender].open
            /\ \A remote \in DOMAIN connections' :
                    connections'[remote] =
                        Connection(connections[remote].sender, FALSE)]_vars

\* after a sweep that met a used open connection, a used closed one and
\* none that was idle: only the first is left, with its using bit cleared
SweepWitness ==
    /\ nEvent = 2 /\ nConnect = 2
    /\ DOMAIN connections = {"a"}
    /\ connections["a"] = Connection(1, FALSE)
    /\ channels[1].open /\ ~channels[2].open
    /\ ~channels[1].accepted /\ ~channels[2].accepted
    /\ channels[2].queue # << >>

\* the cache entry of remote is a connection made from an accepted stream
AcceptedCached(remote) ==
    /\ remote \in DOMAIN connections
    /\ channels[connections[remote].sender].accepted

\* the effect of TcpIncoming on the cache: with a remote in the preamble the
\* accepted connection becomes (or replaces) the entry of that remote and
\* the other entries stay; without one the cache stays as it is
IncomingCached ==
    \A preamble \in Preambles :
        TcpIncoming(preamble) =>
            /\ nConnect' = nConnect
            /\ \A remote \in Addrs \ preamble :
                    /\ remote \in DOMAIN connections' <=> remote \in DOMAIN connections
                    /\ remote \in DOMAIN connections'
                            => connections'[remote] = connections[remote]
            /\ \A remote \in preamble :
                    /\ remote \in DOMAIN connections'
                    /\ connections'[remote].sender = Len(channels) + 1
                    /\ channels' = Append(channels, Channel(TRUE, << >>, TRUE))
            /\ preamble = {} => channels' = channels

\* C19 as stated: TcpIncoming(Some(remote)) caches the accepted connection
\* under remote, TcpIncoming(None) leaves the cache unchanged, and an
\* Outgoing(remote, buf) handled while the accepted connection is the entry
\* of remote is queued on it without a connect call.
AcceptedAlwaysReused ==
    [][/\ IncomingCached
       /\ \A remote \in Addrs, buf \in Bufs :
            AcceptedCached(remote) /\ OutgoingHandled(remote, buf) =>
                /\ QueuedOnlyOn(connections[remote].sender, buf)
                /\ nConnect' = nConnect]_vars

\* C19, amended: the Outgoing is queued on the accepted connection without
\* a connect call provided the writer channel of the accepted connection is
\* still open; otherwise the entry is removed and a new connection is
\* initiated by one connect call.
AcceptedReusedWhileOpen ==
    [][/\ IncomingCached
       /\ \A remote \in Addrs, buf \in Bufs :
            AcceptedCached(remote) /\ OutgoingHandled(remote, buf) =>
                IF channels[connections[remote].sender].open
                THEN /\ QueuedOnlyOn(connections[remote].sender, buf)
                     /\ nConnect' = nConnect
                     /\ connections'[remote].sender = connections[remote].sender
                ELSE /\ ConnectedOnce
                     /\ channels'[connections[remote].sender] =
                            channels[connections[remote].sender]
                     /\ remote \in DOMAIN connections'
                            => connections'[remote].sender = Len(channels) + 1]_vars

\* an accepted connection replaced a connected one and took the reply
AcceptedReusedWitness ==
    \E remote \in Addrs :
        /\ nEvent = 3 /\ nConnect = 1 /\ Len(channels) = 2
        /\ ~channels[1].accepted /\ channels[2].accepted
        /\ DOMAIN connections = {remote}
        /\ connections[remote] = Connection(2, TRUE)
        /\ channels[1].queue = <<"x">>
        /\ channels[2].open /\ channels[2].queue = <<"y">>

(***************************************************************************)
(* Properties of the Timer wrapper.                                        *)
(***************************************************************************)
\* C20: after any sequence of set, unset, ensure_set and ensure_unset, the
\* failing calls included, every handle context.set returned is either held
\* in Timer.id or was passed to context.unset exactly once, so that the
\* context has at most one active timer.
HandlesAccounted ==
    /\ \A h \in 1 .. issued :
            \/ timer_id = {h} /\ unsets[h] = 0
            \/ h \notin timer_id /\ unsets[h] = 1
    /\ Cardinality(scheduled) <= 1

(***************************************************************************)
(* Properties of the receive loops.                                        *)
(***************************************************************************)
\* C21: a received buffer that does not deserialize into a Message is
\* dropped: on_buf sends no event to the entropy, kademlia or blob sender,
\* no peer table changes, and the receive loop that delivered the buffer
\* keeps running.
MalformedDropped ==
    [][\A buf \in RecvBufs :
          deserialize(buf) = {} =>
              /\ UdpRecv(TRUE, buf) =>
                    /\ UNCHANGED <<upcalls, tables>>
                    /\ recv_loop'["udp"] = "running"
              /\ TcpRead("len", Len(buf), buf) =>
                    /\ UNCHANGED <<upcalls, tables>>
                    /\ recv_loop'["tcp"] = "running"]_vars

(***************************************************************************)
(* Properties of the host task.                                            *)
(***************************************************************************)
\* C22, as claimed: the first branch to complete decides the outcome of
\* the host: an error if a session returned first, Ok with no session left
\* running if the cancellation token fired first.
FirstCompletedDecides ==
    host_result # "selecting" =>
        \A branch \in first_done :
            IF branch = "cancel"
            THEN /\ host_result = "ok"
                 /\ \A s \in Sessions : host_sessions[s] # "running"
            ELSE host_result = "error"

\* C22: the branch the select takes decides the outcome of the host: an
\* error if it is a session, returned with an error or with Ok; Ok after
\* aborting all three sessions if it is the cancellation token.  The first
\* branch to complete is the one taken unless another completed before the
\* select polled.  Later completions never change the outcome.
SelectedDecides ==
    [][/\ \A branch \in Branches :
             Select(branch) =>
                 /\ branch \in Sessions => host_result' = "error"
                 /\ branch = "cancel" =>
                       /\ host_result' = "ok"
                       /\ \A s \in Sessions : host_sessions'[s] # "running"
                 /\ Complete = {branch} => first_done = {branch}
       /\ host_result # "selecting" => host_result' = host_result]_vars

\* a session returned Ok, the host returned an error, and the token was
\* cancelled afterwards
SelectedDecidesWitness ==
    /\ host_result = "error"
    /\ host_cancel
    /\ \E s \in Sessions : first_done = {s} /\ host_sessions[s] = "ok"
    /\ \A s \in Sessions : host_sessions[s] # "error"

(***************************************************************************)
(* Properties of the recover states and of the persist entries.            *)
(***************************************************************************)
\* the decode jobs of chunk c in flight: submitted and not yet handled as
\* Decode, Recover or RecoverEncode
DecodeJobs(p, c) == {j \in DOMAIN codec : DecodeJob(p, j) /\ j.chunk = c}

\* the recover states peer p keeps for chunk c
RecoverStates(p, c) ==
    {downloads[p][x].recover : x \in DOMAIN downloads[p] \cap {c}} \cup
    {persists[p][x].status.recover :
        x \in {y \in DOMAIN persists[p] \cap {c} :
                    persists[p][y].status.tag = "Recovering"}}

\* C23: the decoder of every recover state is held by exactly one party:
\* recover.decoder is None if and only if exactly one decode job of that
\* chunk is in flight, at most one such job is in flight per chunk, and
\* the assertion of on_decode never fails, also when the chunk is in both
\* downloads and persists.
DecoderHeldByOne ==
    \A p \in Peers : \A c \in Chunks :
        /\ Cardinality(DecodeJobs(p, c)) <= 1
        /\ \A rs \in RecoverStates(p, c) :
              rs.decoder = {} <=> Cardinality(DecodeJobs(p, c)) = 1
        /\ session[p] # "panic: assert decoder replaced.is_none"

\* the offers an initiator that follows the protocol makes to peer p: the
\* fragment of an index p reserved with an InviteOk sent to that initiator
HonestUploadOffers(p) ==
    {o \in EnvOffers(p) :
        \E q \in o.meta.peer_id :
            InviteOk(o.meta.chunk, o.meta.index, p, q) \in net}

\* C24: whenever a peer handles RecvOffer(SendFragment{c, i, Some(sender)})
\* with c in persists and status Storing or Available, i equals
\* persists[c].index: the assert_eq of the handler never fails, also when
\* the peer answered more than one Invite for c.
UploadOfferAtOwnIndex ==
    [][\A p \in Peers : \A o \in HonestUploadOffers(p) :
          /\ o.meta.chunk \notin DOMAIN downloads[p]
          /\ o.meta.chunk \in DOMAIN persists[p]
          /\ persists[p][o.meta.chunk].status.tag \in {"Storing", "Available"}
          /\ RecvOffer(p, o)
          => /\ o.meta.index = persists[p][o.meta.chunk].index
             /\ session'[p] = "running"]_vars

\* C25: whenever a peer handles RecvOffer(SendFragment{c, i, sender}) with
\* c in persists, status Recovering and i its own index, notify is None
\* before the handler sets it: a Recovering persist worker is offered its
\* own index at most once and the notify assertion never fails.
OwnIndexOfferedOnce ==
    [][\A p \in Peers : \A o \in HonestUploadOffers(p) :
          /\ o.meta.chunk \notin DOMAIN downloads[p]
          /\ o.meta.chunk \in DOMAIN persists[p]
          /\ persists[p][o.meta.chunk].status.tag = "Recovering"
          /\ o.meta.index = persists[p][o.meta.chunk].index
          /\ o.meta.peer_id # persists[p][o.meta.chunk].notify
          /\ \A q \in persists[p][o.meta.chunk].notify :
                InviteOk(o.meta.chunk, o.meta.index, p, q) \in net
          /\ RecvOffer(p, o)
          => /\ persists[p][o.meta.chunk].notify = {}
             /\ session'[p] = "running"]_vars

\* C26: whenever a Decode(c, decoder) event is handled with c in persists
\* and not in downloads, persists[c].status is Recovering: the
\* unreachable!() branch is never taken, also when the job of a foreign
\* index was in flight while DownloadOk of the own index moved the entry
\* to Storing.
DecodeFindsRecovering ==
    [][\A p \in Peers : \A j \in DOMAIN codec : \A pick \in OfferIndices :
          /\ j.chunk \notin DOMAIN downloads[p]
          /\ j.chunk \in DOMAIN persists[p]
          /\ Decode(p, j, pick)
          => /\ persists[p][j.chunk].status.tag = "Recovering"
             /\ session'[p] # "panic: unreachable"]_vars

\* the fragment a completed decode job of a persist entry re-encodes
Reencoded(j) ==
    encode(decoder_recover(Fed(j)), CHOOSE i \in j.encode_index : TRUE)

\* C27: whenever RecoverEncode(c, payload) is handled with c in persists,
\* persists[c].status is Recovering (the unreachable!() branch is never
\* taken); the handler sets status to Storing, triggers the recover
\* state's cancel token and issues exactly one fs.Store(c, index, payload).
RecoverEncodeStores ==
    [][\A p \in Peers : \A j \in DOMAIN codec :
          /\ j.chunk \in DOMAIN persists[p]
          /\ RecoverEncode(p, j)
          => /\ persists[p][j.chunk].status.tag = "Recovering"
             /\ session'[p] # "panic: unreachable"
             /\ persists'[p][j.chunk].status = Storing
             /\ persists[p][j.chunk].status.recover.cancel \in cancelled'
             /\ FsSendOk(p) =>
                   fsTasks'[p] = BagAdd(fsTasks[p],
                       Store(j.chunk, persists[p][j.chunk].index, Reencoded(j)))]_vars

\* m is the signed receipt FragmentAvailable{c, p, p's key} addressed to q
IsReceipt(m, p, c, q) ==
    /\ m.type = "FragmentAvailable"
    /\ m.chunk = c
    /\ m.peer_id = p
    /\ m.peer_key = PublicKey(p)
    /\ verify(m.peer_key, m)
    /\ m.to = q

\* C28: on fs.StoreOk(c) with c in persists, status becomes Available and,
\* if notify = Some(initiator), exactly one signed FragmentAvailable{c,
\* self, self_key} is sent to initiator and notify becomes None; if notify
\* is None nothing is sent; if c is not in persists nothing changes.
StoreOkSendsReceiptOnce ==
    [][\A p \in Peers : \A u \in fsUpcall :
          u.type = "StoreOk" /\ u.to = p /\ StoreOk(p, u) =>
              IF u.chunk \in DOMAIN persists[p]
              THEN LET state == persists[p][u.chunk]
                   IN  /\ persists'[p][u.chunk] =
                             [state EXCEPT !.status = Available, !.notify = {}]
                       /\ state.notify = {} => net' = net
                       /\ \A q \in state.notify :
                             \E m \in net' :
                                 /\ IsReceipt(m, p, u.chunk, q)
                                 /\ net' = net \cup {m}
              ELSE UNCHANGED <<tables, net>>]_vars

\* StoreOk was handled for an entry that had an initiator to notify
StoreOkSendsReceiptWitness ==
    \E p \in Peers : \E c \in DOMAIN persists[p] :
        /\ persists[p][c].status = Available
        /\ persists[p][c].notify = {}
        /\ \E q \in Others : \E m \in net : IsReceipt(m, p, c, q)
        /\ c \in DOMAIN disk[p]
        /\ ~ \E u \in fsUpcall : u.type = "StoreOk"

\* the Pulls that may reach peer p in this state
Pulls(p) == EnvPulls(p) \cup {m \in net : m.type = "Pull" /\ m.to = p}
HandlesPull(p, m) == RecvPull(p, m, net) \/ RecvPull(p, m, net \ {m})

CountOf(bag, e) == IF e \in DOMAIN bag THEN bag[e] ELSE 0
Occurrences(seq, e) == Cardinality({i \in DOMAIN seq : seq[i] = e})

UploadGone(p, c) ==
    /\ c \in DOMAIN uploads[p]
    /\ \/ c \notin DOMAIN uploads'[p]
       \/ uploads'[p][c].cancel # uploads[p][c].cancel

DownloadGone(p, c) ==
    /\ c \in DOMAIN downloads[p]
    /\ \/ c \notin DOMAIN downloads'[p]
       \/ downloads'[p][c].recover.cancel # downloads[p][c].recover.cancel

\* C30: the cancellation token of an upload entry is triggered if and only
\* if the entry is no longer in uploads: it is untriggered while the entry
\* is present and is triggered in the step that removes or replaces the
\* entry; the same holds for a download entry's recover token.
TokenTriggeredWithEntry ==
    [][\A p \in Peers : \A c \in Chunks :
          /\ c \in DOMAIN uploads'[p] => uploads'[p][c].cancel \notin cancelled'
          /\ UploadGone(p, c) => uploads[p][c].cancel \in cancelled'
          /\ c \in DOMAIN downloads'[p] =>
                downloads'[p][c].recover.cancel \notin cancelled'
          /\ DownloadGone(p, c) => downloads[p][c].recover.cancel \in cancelled'
          /\ cancelled \subseteq cancelled']_vars

(***************************************************************************)
(* Properties of the PUT initiator.                                        *)
(***************************************************************************)
\* the offers peer p has made for index i of chunk c under an upload's token
UploadOffers(p, c, i, token) ==
    {o \in DOMAIN offers :
        o.meta = SendFragment(c, i, {p}) /\ o.cancel = {token}}

\* C31: every bulk offer of a PUT initiator for chunk c carries
\* SendFragment{c, i, Some(self)} and the cancel token of uploads[c], and
\* at most one such offer is made per (c, i) per upload.
OneOfferPerReservedIndex ==
    \A p \in Peers : \A c \in Chunks : \A i \in Indices :
        \A n \in 0 .. nextToken[p] :
            BagSum(offers, UploadOffers(p, c, i, <<p, n>>)) <= 1

(***************************************************************************)
(* Properties of the persist worker.                                       *)
(***************************************************************************)
\* what DownloadOk(c, i, payload) does to a persist entry of p, by the
\* status and the index of the entry
PersistDownloadOk(p, t) ==
    LET state == persists[p][t.chunk]
        rs == state.status.recover
        after == persists'[p][t.chunk]
    IN  IF state.status.tag # "Recovering"
        THEN UNCHANGED <<tables, codec, fsTasks>>
        ELSE IF t.index = state.index
        THEN /\ after.status = Storing
             /\ codec' = codec
             /\ FsSendOk(p) =>
                   fsTasks'[p] = BagAdd(fsTasks[p],
                                        Store(t.chunk, state.index, t.payload))
        ELSE IF t.index \in rs.received
        THEN UNCHANGED <<tables, codec, fsTasks>>
        ELSE /\ after.status.tag = "Recovering"
             /\ after.status.recover.received = rs.received \cup {t.index}
             /\ UNCHANGED fsTasks
             /\ IF rs.decoder # {}
                THEN /\ after.status.recover.decoder = {}
                     /\ \E j \in DOMAIN codec' :
                           /\ DecodeJob(p, j)' /\ j.index = t.index
                           /\ j.payload = t.payload
                           /\ codec' = BagAdd(codec, j)
                ELSE /\ codec' = codec
                     /\ t.index \in DOMAIN after.status.recover.pending

\* C32: on DownloadOk(c, i, payload) at a peer with persists[c]
\* Recovering, the own index moves the entry to Storing and issues
\* fs.Store without any decode; a foreign index is fed to the decoder
\* (submitted or queued) only if it was not in recover.received; with
\* status Storing or Available the event changes nothing.
DownloadOkAtPersistWorker ==
    [][\A p \in Peers : \A t \in transfers :
          /\ t.to = p
          /\ t.chunk \in DOMAIN persists[p]
          /\ DownloadOk(p, t)
          => PersistDownloadOk(p, t)]_vars

(***************************************************************************)
(* The reclaiming policy of Dispatch.                                      *)
(***************************************************************************)
\* the cached connections that sent a buffer since the previous sweep, or
\* since they were installed, and whose writer channel is open
InSession ==
    {remote \in DOMAIN connections :
        /\ connections[remote].sender \in sent
        /\ channels[connections[remote].sender].open}

\* C33: a timer sweep never removes a cached connection that had a
\* successful Outgoing send since the previous sweep (or since it was
\* installed) and whose writer channel is open; a sweep only removes
\* connections without such a send or with a closed writer.
SweepKeepsUsedConnections ==
    [][OnTimer =>
          \A remote \in InSession :
              /\ remote \in DOMAIN connections'
              /\ connections'[remote].sender = connections[remote].sender]_vars

\* a connection that Outgoing installed and that accepted a second buffer
\* has survived a sweep
SweepKeepsUsedConnectionsWitness ==
    \E remote \in DOMAIN connections :
        /\ ~channels[connections[remote].sender].accepted
        /\ ~connections[remote].using
        /\ channels[connections[remote].sender].open
        /\ Len(channels[connections[remote].sender].queue) = 2

(***************************************************************************)
(* Type erasure of events.                                                 *)
(***************************************************************************)
\* the typed event, as it was sent, that Untyped::on_event is handling
\* when the inner queue delivers in the order of the sends
Delivered == erase_sent[Len(erase_sent) - Len(erase_queue) + 1]

InvitedOks(p) ==
    {m \in EnvInviteOks(p) : Invite(m.chunk, p, m.peer_id) \in net}

\* C35: whenever Recv(InviteOk{c, i, peer}) is handled with c in uploads
\* and i not yet reserved, uploads[c].encoder is present, so the unwrap of
\* the encoder does not panic; also for an InviteOk left over from an
\* earlier, concluded Put of the chunk.
InviteOkFindsEncoder ==
    [][\A p \in Peers : \A m \in InvitedOks(p) :
          /\ m.chunk \in DOMAIN uploads[p]
          /\ ~Reserved(uploads[p][m.chunk].pending, m.index)
          /\ RecvInviteOk(p, m, net)
          => /\ uploads[p][m.chunk].encoder # {}
             /\ session'[p] = "running"]_vars

\* C36: every peer id in uploads[c].available is the value of an entry of
\* uploads[c].pending: only peers that reserved an index with InviteOk
\* count toward the receipts that conclude the upload.
AvailableReservedAnIndex ==
    \A p \in Peers : \A c \in DOMAIN uploads[p] :
        \A q \in uploads[p][c].available :
            \E i \in DOMAIN uploads[p][c].pending :
                uploads[p][c].pending[i] = q

(***************************************************************************)
(* The life of a persist entry.                                            *)
(***************************************************************************)
\* the Store tasks for chunk c that p hands to its fs session in this step
StoresIssued(p, c) ==
    {t \in DOMAIN fsTasks'[p] :
        /\ t.type = "Store" /\ t.chunk = c
        /\ (t \in DOMAIN fsTasks[p] => fsTasks'[p][t] > fsTasks[p][t])}

\* one step of persists[c].status along Recovering -> Storing -> Available
StatusMovesForward(p, c) ==
    LET before == persists[p][c].status.tag
        after == persists'[p][c].status.tag
    IN  /\ before = "Storing" => after \in {"Storing", "Available"}
        /\ before = "Available" => after = "Available"
        /\ before = "Recovering" => after \in {"Recovering", "Storing"}
        /\ StoresIssued(p, c) # {} =>
                before = "Recovering" /\ after = "Storing"

\* C37: persists[c].status only moves forward along Recovering -> Storing
\* -> Available, Available is only entered from Storing, and fs.Store is
\* issued at most once per chunk, on leaving Recovering, so the fragment
\* filesystem never receives a Store for an existing chunk directory.
PersistStatusForward ==
    [][\A p \in Peers :
          /\ \A c \in DOMAIN persists[p] :
                c \in DOMAIN persists'[p] /\ StatusMovesForward(p, c)
          /\ \A t \in DOMAIN fsTasks[p] :
                FsStore(p, t) => t.chunk \notin DOMAIN disk[p]]_vars

(***************************************************************************)
(* When receipts are sent.                                                 *)
(***************************************************************************)
\* the FragmentAvailable receipts of p for chunk c sent in this step
ReceiptsSent(p, c) ==
    {m \in net' \ net : IsReceipt(m, p, c, m.to)}

\* C38 as stated: a peer sends a FragmentAvailable for chunk c only in a
\* state where persists[c].status = Available, after the StoreOk for its
\* fragment has been handled; no receipt is sent while the entry is
\* Recovering or Storing.
ReceiptOnlyWhenAvailable ==
    [][\A p \in Peers : \A c \in Chunks :
          ReceiptsSent(p, c) # {} =>
              /\ c \in DOMAIN persists'[p]
              /\ persists'[p][c].status = Available]_vars

\* C38, amended: a peer sends a FragmentAvailable for chunk c only for an
\* entry of persists that has left Recovering: when it handles StoreOk,
\* which makes the entry Available, or when it is offered a fragment with
\* a sender while the entry is Storing or Available.
ReceiptOnlyAfterRecovering ==
    [][\A p \in Peers : \A c \in Chunks :
          ReceiptsSent(p, c) # {} =>
              /\ c \in DOMAIN persists[p]
              /\ persists[p][c].status.tag \in {"Storing", "Available"}
              /\ persists'[p][c].status.tag \in {"Storing", "Available"}
              /\ \/ persists'[p][c].status = Available
                 \/ \E o \in EnvOffers(p) \cup DOMAIN offers :
                        /\ o.meta.chunk = c /\ o.meta.peer_id # {}
                        /\ RecvOffer(p, o)]_vars

\* a receipt was sent by an entry that is Storing
ReceiptOnlyAfterRecoveringWitness ==
    \E p \in Peers : \E c \in DOMAIN persists[p] :
        /\ persists[p][c].status = Storing
        /\ \E m \in net : IsReceipt(m, p, c, m.to)
        /\ session[p] = "running"

(***************************************************************************)
(* The duplicate-chunk errors.                                             *)
(***************************************************************************)
\* the call p handles in this step returns the given error
Returns(p, error) == session[p] = "running" /\ session'[p] = error

\* C39: when Put or Get returns the duplicate-chunk error the peer's state
\* is unchanged: the upload (download) entry already present for the chunk
\* keeps its preimage, encoder, pending map, available set, recover state
\* and cancel token.
DuplicateKeepsEntry ==
    [][\A p \in Peers :
          /\ Returns(p, "error: duplicated upload chunk") =>
                UNCHANGED <<uploads, downloads, persists, pending_pulls>>
          /\ Returns(p, "error: duplicated download chunk") =>
                UNCHANGED <<uploads, downloads, persists, pending_pulls>>]_vars

(***************************************************************************)
(* The calls of the Timer wrapper.                                         *)
(***************************************************************************)
\* the call made in this step and the one made before it
ThisCall == last_calls'[Len(last_calls')].call
Previous == last_calls[Len(last_calls)]
\* the call of this step reaches context.set or context.unset
ContextCalled ==
    \/ issued' # issued
    \/ unsets' # unsets
    \/ returned' = "error: context.set"

\* unset on a timer that is not set is an error without a context call,
\* and set on a timer that is set is an error
MisuseIsError ==
    /\ ThisCall = "unset" /\ timer_id = {} =>
            returned' # "ok" /\ ~ContextCalled
    /\ ThisCall = "set" /\ timer_id # {} => returned' # "ok"

\* set followed by unset hands the handle context.set returned to
\* context.unset and leaves the timer unset
SetThenUnset ==
    /\ last_calls # << >>
    /\ Previous.call = "set" /\ Previous.returned # "error: context.set"
    /\ ThisCall = "unset"
    => /\ unsets' = [unsets EXCEPT ![issued] = @ + 1]
       /\ timer_id' = {}

\* this step is a second consecutive call of the named operation
Repeated(name) ==
    last_calls # << >> /\ Previous.call = name /\ ThisCall = name

\* C40 as stated: unset on a timer that is not set returns an error without
\* calling context.unset; set on a timer that is set returns an error; a
\* second consecutive call of ensure_set or of ensure_unset makes no
\* context call and returns Ok; set followed by unset passes to
\* context.unset the handle context.set returned and restores the unset
\* state.
TimerCallsIdempotent ==
    [][nCall' = nCall + 1 =>
          /\ MisuseIsError
          /\ SetThenUnset
          /\ Repeated("ensure_set") \/ Repeated("ensure_unset") =>
                ~ContextCalled /\ returned' = "ok"]_vars

\* C40, amended: the same, where the second consecutive ensure_set follows
\* an ensure_set that returned Ok.
TimerCallsIdempotentAfterOk ==
    [][nCall' = nCall + 1 =>
          /\ MisuseIsError
          /\ SetThenUnset
          /\ \/ Repeated("ensure_set") /\ Previous.returned = "ok"
             \/ Repeated("ensure_unset")
             => ~ContextCalled /\ returned' = "ok"]_vars

\* ensure_set was called twice on a new timer and returned Ok twice: one
\* handle was issued and is held
TimerCallsIdempotentWitness ==
    /\ nCall = 2
    /\ last_calls = <<[call |-> "ensure_set", returned |-> "ok"],
                      [call |-> "ensure_set", returned |-> "ok"]>>
    /\ issued = 1 /\ timer_id = {1}

====
